---- MODULE Spec2Model ----
(***************************************************************************)
(* Model of the text-extraction pipeline of elkoi_py                       *)
(* (src/parse_raw_phrases.py): the item tokenizer ReadFileWrapper, the tag *)
(* processor SimplePair._apply_tags, the word wrapper fill_paragraph and   *)
(* the noun grammar extractor parse_noun.                                  *)
(*                                                                         *)
(* Python str values are TLA+ strings; a file is the sequence of its       *)
(* lines.  Every component has its own specification over its own          *)
(* variables; the other components' variables stay at their idle values.   *)
(***************************************************************************)
EXTENDS Integers, Sequences, FiniteSets, TLC

VARIABLES
    \* ReadFileWrapper
    file, file_pos, line_counter, end_reached, current_item_first_line,
    current_item, yielded, raised,
    \* SimplePair._apply_tags
    text, in_front, in_body, in_back, tag_pc, question_text, answer_text,
    \* fill_paragraph
    paragraph, fill_pc, filled,
    \* parse_noun
    item, in_article, in_word, in_plural, in_translation, noun_pc, noun,
    old_pc, old_noun,
    \* __main__ and parse_item
    main_pc, cur_item, attempts, result, flashcards, stderr,
    \* write_one_flashcard and extract_properties
    card, org_file, codec_pc, decoded,
    \* read_and_save_flashcards
    imp_file, filewrp, pwce_name, flashcards_counter, db, calls, log, imp_pc

tokVars  == <<file, file_pos, line_counter, end_reached,
              current_item_first_line, current_item, yielded, raised>>
tagVars  == <<text, in_front, in_body, in_back, tag_pc, question_text,
              answer_text>>
fillVars == <<paragraph, fill_pc, filled>>
nounVars == <<item, in_article, in_word, in_plural, in_translation, noun_pc,
              noun, old_pc, old_noun>>
mainVars == <<main_pc, cur_item, attempts, result, flashcards, stderr>>
codecVars == <<card, org_file, codec_pc, decoded>>
impVars  == <<imp_file, filewrp, pwce_name, flashcards_counter, db, calls,
              log, imp_pc>>
vars     == <<tokVars, tagVars, fillVars, nounVars, mainVars, codecVars,
              impVars>>

(***************************************************************************)
(* Python str operations                                                   *)
(***************************************************************************)

\* s[i] for a 1-based index
At(s, i) == SubSeq(s, i, i)

\* s[a:b] for 0 <= a, 0 <= b (Python clamps both ends to the string)
Slice(s, a, b) ==
    LET hi == IF b > Len(s) THEN Len(s) ELSE b
    IN  IF a >= hi THEN "" ELSE SubSeq(s, a + 1, hi)

\* s[a:]
SliceFrom(s, a) == Slice(s, a, Len(s))

\* s.startswith(p)
StartsWith(s, p) == Len(s) >= Len(p) /\ SubSeq(s, 1, Len(p)) = p

\* the characters str.isspace() and str.split() treat as whitespace
Whitespace == {" ", "\n", "\t"}

\* s.isspace()
IsSpace(s) == Len(s) > 0 /\ \A i \in 1..Len(s) : At(s, i) \in Whitespace

\* sep.join(seq)
RECURSIVE Join(_, _)
Join(sep, seq) ==
    IF Len(seq) = 0 THEN ""
    ELSE IF Len(seq) = 1 THEN seq[1]
    ELSE seq[1] \o sep \o Join(sep, Tail(seq))

\* the value None
None == "<None>"

(***************************************************************************)
(* ReadFileWrapper: the item tokenizer                                     *)
(***************************************************************************)

\* the lines a document is made of
Lines == {"- a\n", "- b\n", "  cont\n", "# c\n", "\n", "* h\n"}

\* a last line need not end in a newline
LastLines == Lines \cup {"- b", "  cont"}

\* largest number of lines of a document
MaxLines == 4

Documents ==
    {<<>>} \cup
    UNION {{Append(d, l) : d \in [1..(n - 1) -> Lines], l \in LastLines} :
           n \in 1..MaxLines}

\* the branch of the if/elif chain of __next__ a line takes
LineClassSkipOther(line) ==
    IF StartsWith(line, "- ") THEN "start"
    ELSE IF StartsWith(line, "  ") THEN "continuation"
    ELSE "skip"

LineClass(line) ==
    IF StartsWith(line, "- ") THEN "start"
    ELSE IF StartsWith(line, "  ") THEN "continuation"
    ELSE IF StartsWith(line, "#") THEN "skip"
    ELSE IF IsSpace(line) THEN "skip"
    ELSE "stop"

\* _wnr_current_item: the deque after insert(0, first line)
wnr_deque_append(first, cur) == Append(cur, first)

wnr_deque(first, cur) == <<first>> \o cur

\* _wnr_current_item: "".join of the deque; joining None is a TypeError
wnr_current_item(first, cur, next_first, pos, counter, end) ==
    [pos     |-> pos,
     counter |-> counter,
     end     |-> end,
     first   |-> next_first,
     deque   |-> wnr_deque(first, cur),
     kind    |-> IF first = None THEN "TypeError" ELSE "item",
     value   |-> IF first = None THEN "" ELSE Join("", wnr_deque(first, cur))]

\* the while loop of __next__, from the line at pos on
RECURSIVE NextLoop(_, _, _, _)
NextLoop(pos, counter, first, cur) ==
    IF pos > Len(file)
    THEN \* _readline raises StopIteration: caught, end is reached
         wnr_current_item(first, cur, "", pos, counter, TRUE)
    ELSE LET line == file[pos]
             cls  == LineClass(line)
         IN  IF cls = "start"
             THEN IF first = None
                  THEN NextLoop(pos + 1, counter + 1, line, cur)
                  ELSE wnr_current_item(first, cur, line, pos + 1,
                                        counter + 1, FALSE)
             ELSE IF cls = "continuation"
             THEN NextLoop(pos + 1, counter + 1, first, Append(cur, line))
             ELSE IF cls = "skip"
             THEN NextLoop(pos + 1, counter + 1, first, cur)
             ELSE \* raise StopIteration: caught, end is reached
                  wnr_current_item(first, cur, "", pos + 1, counter + 1, TRUE)

TokIdle ==
    /\ file = <<>>
    /\ file_pos = 1
    /\ line_counter = 0
    /\ end_reached = FALSE
    /\ current_item_first_line = None
    /\ current_item = <<>>
    /\ yielded = <<>>
    /\ raised = "idle"

\* ReadFileWrapper.__init__
InitTok ==
    /\ file \in Documents
    /\ file_pos = 1
    /\ line_counter = 0
    /\ end_reached = FALSE
    /\ current_item_first_line = None
    /\ current_item = <<>>
    /\ yielded = <<>>
    /\ raised = "none"

\* __next__ while the end is not reached: returns an item or fails in join
NextItem ==
    /\ raised = "none"
    /\ ~end_reached
    /\ LET r == NextLoop(file_pos, line_counter, current_item_first_line, <<>>)
       IN  /\ file_pos' = r.pos
           /\ line_counter' = r.counter
           /\ end_reached' = r.end
           /\ current_item_first_line' = r.first
           /\ current_item' = r.deque
           /\ yielded' = IF r.kind = "item" THEN Append(yielded, r.value)
                         ELSE yielded
           /\ raised' = IF r.kind = "item" THEN "none" ELSE "TypeError"
    /\ UNCHANGED file
    /\ UNCHANGED <<tagVars, fillVars, nounVars, mainVars, codecVars, impVars>>

\* __next__ once the end is reached: raise StopIteration
NextStop ==
    /\ raised \in {"none", "StopIteration"}
    /\ end_reached
    /\ raised' = "StopIteration"
    /\ UNCHANGED <<file, file_pos, line_counter, end_reached,
                   current_item_first_line, current_item, yielded>>
    /\ UNCHANGED <<tagVars, fillVars, nounVars, mainVars, codecVars, impVars>>

(***************************************************************************)
(* Regular expressions, as re.fullmatch and re.search evaluate them        *)
(***************************************************************************)

Lower  == {"a", "b", "c", "d", "e", "f", "g", "h", "i", "j", "k", "l", "m",
           "n", "o", "p", "q", "r", "s", "t", "u", "v", "w", "x", "y", "z"}
Upper  == {"A", "B", "C", "D", "E", "F", "G", "H", "I", "J", "K", "L", "M",
           "N", "O", "P", "Q", "R", "S", "T", "U", "V", "W", "X", "Y", "Z"}
Digits == {"0", "1", "2", "3", "4", "5", "6", "7", "8", "9"}

\* \w
WordChars == Lower \cup Upper \cup Digits \cup {"_"}

\* tag_chars of _apply_tags: \w*:'",;/() -
TagChars == WordChars \cup {"*", ":", "'", "\"", ",", ";", "/", "(", ")", " ", "-"}

\* the body class of _apply_tags: [\w,;/()'" -]
BodyChars == WordChars \cup {",", ";", "/", "(", ")", "'", "\"", " ", "-"}

\* the characters of s at the indices i..j are all in cs (inside), or all
\* not in cs
AllOf(cs, inside, s, i, j) == \A k \in i..j : (At(s, k) \in cs) = inside

\* the largest n in lo..hi such that the n characters of s from index i on
\* are all in cs (inside), or all not in cs; lo is such an n
RECURSIVE RunSearch(_, _, _, _, _, _)
RunSearch(cs, inside, s, i, lo, hi) ==
    IF lo = hi THEN lo
    ELSE LET mid == (lo + hi + 1) \div 2
         IN  IF AllOf(cs, inside, s, i, i + mid - 1)
             THEN RunSearch(cs, inside, s, i, mid, hi)
             ELSE RunSearch(cs, inside, s, i, lo, mid - 1)

\* the length of the longest run of characters of cs in s from index i on
Run(cs, s, i) ==
    IF i > Len(s) THEN 0 ELSE RunSearch(cs, TRUE, s, i, 0, Len(s) - i + 1)

\* the length of the longest run of characters not in cs from index i on
RunNot(cs, s, i) ==
    IF i > Len(s) THEN 0 ELSE RunSearch(cs, FALSE, s, i, 0, Len(s) - i + 1)

\* s has p at index i
HasAt(s, p, i) == i + Len(p) - 1 <= Len(s) /\ SubSeq(s, i, i + Len(p) - 1) = p

\* the indices after a match of <[tag_chars]+> that starts at index i
OneTagEnds(s, i) ==
    IF HasAt(s, "<", i)
    THEN {i + 1 + n + 1 : n \in {m \in 1..Run(TagChars, s, i + 1) :
                                   HasAt(s, ">", i + 1 + m)}}
    ELSE {}

\* the indices after a match of (<[tag_chars]+>)* that starts at index i
RECURSIVE TagsEnds(_, _)
TagsEnds(s, i) == {i} \cup UNION {TagsEnds(s, j) : j \in OneTagEnds(s, i)}

\* pattern elements: a literal, an alternation of literals, [cs]+, [cs]*,
\* [cs]? and (<[tag_chars]+>)*
Lit(str)  == [k |-> "lit", s |-> str]
Alt(strs) == [k |-> "alt", ss |-> strs]
Plus(cs)  == [k |-> "cls", cs |-> cs, min |-> 1, many |-> TRUE]
Star(cs)  == [k |-> "cls", cs |-> cs, min |-> 0, many |-> TRUE]
Opt(cs)   == [k |-> "cls", cs |-> cs, min |-> 0, many |-> FALSE]
Tags      == [k |-> "tags"]

\* the indices after a match of pattern element e that starts at index i
Ends(e, s, i) ==
    IF e.k = "lit" THEN (IF HasAt(s, e.s, i) THEN {i + Len(e.s)} ELSE {})
    ELSE IF e.k = "alt" THEN {i + Len(a) : a \in {b \in e.ss : HasAt(s, b, i)}}
    ELSE IF e.k = "cls"
    THEN LET run == Run(e.cs, s, i)
             top == IF ~e.many /\ run > 1 THEN 1 ELSE run
         IN  {i + n : n \in e.min..top}
    ELSE TagsEnds(s, i)

\* elements k.. of pat match s from index i to the end of s
RECURSIVE Matches(_, _, _, _)
Matches(pat, s, k, i) ==
    IF k > Len(pat) THEN i = Len(s) + 1
    ELSE \E j \in Ends(pat[k], s, i) : Matches(pat, s, k + 1, j)

\* greedy with backtracking: each element takes the longest match that lets
\* the rest of the pattern match; the end index of every element from k on
RECURSIVE MatchEnds(_, _, _, _)
MatchEnds(pat, s, k, i) ==
    IF k > Len(pat) THEN <<>>
    ELSE LET ok == {j \in Ends(pat[k], s, i) : Matches(pat, s, k + 1, j)}
             j  == CHOOSE x \in ok : \A y \in ok : y <= x
         IN  <<j>> \o MatchEnds(pat, s, k + 1, j)

\* pattern.fullmatch(s) is not None
FullMatch(pat, s) == Matches(pat, s, 1, 1)

\* match.group of the group made of the elements from..to of the pattern,
\* ends being the end indices of the elements in the match
Group(s, ends, from, to) ==
    LET start == IF from = 1 THEN 1 ELSE ends[from - 1]
    IN  Slice(s, start - 1, ends[to] - 1)

\* s.find(sub) != -1
Contains(s, sub) == \E i \in 1..Len(s) : HasAt(s, sub, i)

\* s.replace(old, new), old not empty
RECURSIVE Replace(_, _, _)
Replace(s, old, new) ==
    LET found == {i \in 1..Len(s) : HasAt(s, old, i)}
    IN  IF found = {} THEN s
        ELSE LET i == CHOOSE x \in found : \A y \in found : x <= y
             IN  Slice(s, 0, i - 1) \o new
                 \o Replace(SliceFrom(s, i - 1 + Len(old)), old, new)

(***************************************************************************)
(* SimplePair._apply_tags: the tag processor                               *)
(***************************************************************************)

\* the tags and bodies phrases are made of
TagPool == {"<*>", "</>", "<eng>", "<x>"}
Bodies  == {"body", "", "a<b"}

\* largest number of tags before, and after, the body
MaxTags == 2

TagRuns == UNION {[1..n -> TagPool] : n \in 0..MaxTags}

\* _apply_special_tags
apply_special_tags_slash_first(front_tags, tagless_text, back_tags) ==
    LET slash == Contains(front_tags, "</>")
        t1    == IF slash THEN "/" \o tagless_text \o "/" ELSE tagless_text
        f1    == IF slash THEN Replace(front_tags, "</>", "") ELSE front_tags
        star  == Contains(f1, "<*>")
        t2    == IF star THEN "*" \o t1 \o "*" ELSE t1
        f2    == IF star THEN Replace(f1, "<*>", "") ELSE f1
        eng   == Contains(f2, "<eng>")
        t3    == IF eng THEN "Translate to English: " \o t2 ELSE t2
        f3    == IF eng THEN Replace(f2, "<eng>", "") ELSE f2
    IN  f3 \o t3 \o back_tags

apply_special_tags_anywhere(front_tags, tagless_text, back_tags) ==
    LET star  == Contains(front_tags \o back_tags, "<*>")
        t1    == IF star THEN "*" \o tagless_text \o "*" ELSE tagless_text
        slash == Contains(front_tags \o back_tags, "</>")
        t2    == IF slash THEN "/" \o t1 \o "/" ELSE t1
        eng   == Contains(front_tags \o back_tags, "<eng>")
        t3    == IF eng THEN "Translate to English: " \o t2 ELSE t2
        plain(tags) ==
            Replace(Replace(Replace(tags, "<*>", ""), "</>", ""), "<eng>", "")
    IN  plain(front_tags) \o t3 \o plain(back_tags)

apply_special_tags_eng_first(front_tags, tagless_text, back_tags) ==
    LET star  == Contains(front_tags, "<*>")
        t1    == IF star THEN "*" \o tagless_text \o "*" ELSE tagless_text
        f1    == IF star THEN Replace(front_tags, "<*>", "") ELSE front_tags
        slash == Contains(f1, "</>")
        t2    == IF slash THEN "/" \o t1 \o "/" ELSE t1
        f2    == IF slash THEN Replace(f1, "</>", "") ELSE f1
        eng   == Contains(f2, "<eng>")
        f3    == IF eng THEN Replace(f2, "<eng>", "") ELSE f2
    IN  (IF eng THEN "Translate to English: " ELSE "") \o f3 \o t2
        \o back_tags

apply_special_tags(front_tags, tagless_text, back_tags) ==
    LET star  == Contains(front_tags, "<*>")
        t1    == IF star THEN "*" \o tagless_text \o "*" ELSE tagless_text
        f1    == IF star THEN Replace(front_tags, "<*>", "") ELSE front_tags
        slash == Contains(f1, "</>")
        t2    == IF slash THEN "/" \o t1 \o "/" ELSE t1
        f2    == IF slash THEN Replace(f1, "</>", "") ELSE f1
        eng   == Contains(f2, "<eng>")
        t3    == IF eng THEN "Translate to English: " \o t2 ELSE t2
        f3    == IF eng THEN Replace(f2, "<eng>", "") ELSE f2
    IN  f3 \o t3 \o back_tags

\* the pattern text is matched against in full
TextPattern == <<Tags, Plus(BodyChars), Tags>>

\* tag_regex.search(s): the start indices of the tags in s
TagStarts(s) == {i \in 1..Len(s) : OneTagEnds(s, i) # {}}

\* tag_match.group(0) of the leftmost tag in s
RawTagText(s) ==
    LET i == CHOOSE x \in TagStarts(s) : \A y \in TagStarts(s) : x <= y
        j == CHOOSE x \in OneTagEnds(s, i) : \A y \in OneTagEnds(s, i) : y <= x
    IN  SubSeq(s, i, j - 1)

\* raw_tag_text[1:(len(raw_tag_text) - 1)]
TagTextKeepClose(raw_tag_text) == Slice(raw_tag_text, 1, Len(raw_tag_text))

TagText(raw_tag_text) == Slice(raw_tag_text, 1, Len(raw_tag_text) - 1)

TagIdle ==
    /\ text = ""
    /\ in_front = <<>>
    /\ in_body = ""
    /\ in_back = <<>>
    /\ tag_pc = "idle"
    /\ question_text = ""
    /\ answer_text = ""

\* a phrase: tags, a body, tags
InitTag ==
    /\ in_front \in TagRuns
    /\ in_body \in Bodies
    /\ in_back \in TagRuns
    /\ text = Join("", in_front) \o in_body \o Join("", in_back)
    /\ tag_pc = "start"
    /\ question_text = ""
    /\ answer_text = ""

\* _apply_tags, text_match is None: raise ItemFormatError
ApplyTagsReject ==
    /\ tag_pc = "start"
    /\ ~FullMatch(TextPattern, text)
    /\ tag_pc' = "ItemFormatError"
    /\ UNCHANGED <<text, in_front, in_body, in_back, question_text,
                   answer_text>>
    /\ UNCHANGED <<tokVars, fillVars, nounVars, mainVars, codecVars, impVars>>

\* _apply_tags up to the unwrap loop
ApplyTagsMatch ==
    /\ tag_pc = "start"
    /\ FullMatch(TextPattern, text)
    /\ LET ends         == MatchEnds(TextPattern, text, 1, 1)
           tagless_text == Group(text, ends, 2, 2)
           front_tags   == Slice(text, 0, ends[1] - 1)
           back_tags    == SliceFrom(text, ends[2] - 1)
       IN  /\ answer_text' = tagless_text
           /\ question_text' =
                  apply_special_tags(front_tags, tagless_text, back_tags)
    /\ tag_pc' = "unwrap"
    /\ UNCHANGED <<text, in_front, in_body, in_back>>
    /\ UNCHANGED <<tokVars, fillVars, nounVars, mainVars, codecVars, impVars>>

\* one pass of the while loop of _apply_tags
UnwrapTag ==
    /\ tag_pc = "unwrap"
    /\ TagStarts(question_text) # {}
    /\ LET raw_tag_text == RawTagText(question_text)
       IN  question_text' =
               Replace(question_text, raw_tag_text, TagText(raw_tag_text))
    /\ UNCHANGED <<text, in_front, in_body, in_back, tag_pc, answer_text>>
    /\ UNCHANGED <<tokVars, fillVars, nounVars, mainVars, codecVars, impVars>>

\* tag_match is None: return question_text, answer_text
ApplyTagsReturn ==
    /\ tag_pc = "unwrap"
    /\ TagStarts(question_text) = {}
    /\ tag_pc' = "done"
    /\ UNCHANGED <<text, in_front, in_body, in_back, question_text,
                   answer_text>>
    /\ UNCHANGED <<tokVars, fillVars, nounVars, mainVars, codecVars, impVars>>

(***************************************************************************)
(* fill_paragraph: the word wrapper                                        *)
(***************************************************************************)

\* s.split(): the words of s from index i on
RECURSIVE SplitFrom(_, _)
SplitFrom(s, i) ==
    LET start == i + Run(Whitespace, s, i)
        n     == RunNot(Whitespace, s, start)
    IN  IF n = 0 THEN <<>>
        ELSE <<SubSeq(s, start, start + n - 1)>> \o SplitFrom(s, start + n)

Split(s) == SplitFrom(s, 1)

\* s.strip()
Strip(s) ==
    LET ends == {j \in 1..Len(s) : At(s, j) \notin Whitespace}
    IN  IF ends = {} THEN ""
        ELSE SubSeq(s, 1 + Run(Whitespace, s, 1),
                    CHOOSE x \in ends : \A y \in ends : y <= x)

\* the default of the parameter max_width
MaxWidth == 79

\* the for loop of fill_paragraph from word k on, and its two returns
RECURSIVE FillLoop(_, _, _, _, _)
FillLoop(words, k, line, lines, max_width) ==
    IF k > Len(words)
    THEN IF lines = <<>> THEN line ELSE Strip(Join("", lines))
    ELSE LET word == words[k]
         IN  IF Len(line) # 0
             THEN IF Len(line) + 1 + Len(word) > max_width
                  THEN FillLoop(words, k + 1, word,
                                Append(lines, line \o "\n"), max_width)
                  ELSE FillLoop(words, k + 1, line \o " " \o word, lines,
                                max_width)
             ELSE FillLoop(words, k + 1, word, lines, max_width)

fill_paragraph(p, max_width) == FillLoop(Split(p), 1, "", <<>>, max_width)

\* n times the character c
RECURSIVE Rep(_, _)
Rep(c, n) ==
    IF n = 0 THEN ""
    ELSE IF n = 1 THEN c
    ELSE Rep(c, n \div 2) \o Rep(c, n - (n \div 2))

\* the words and separators paragraphs are made of: with one space between
\* them, two words of 39 characters fill 79 columns, 39 and 40 fill 80
FillWords   == {"a", "to", Rep("b", 39), Rep("c", 40), Rep("d", 80)}
Separators  == {" ", "  ", "\n"}

\* largest number of words of a paragraph
MaxWords == 3

Paragraphs ==
    {Join(sep, w) : sep \in Separators,
                    w \in UNION {[1..n -> FillWords] : n \in 0..MaxWords}}

FillIdle ==
    /\ paragraph = ""
    /\ fill_pc = "idle"
    /\ filled = ""

InitFill ==
    /\ paragraph \in Paragraphs
    /\ fill_pc = "start"
    /\ filled = ""

\* fill_paragraph(paragraph), as _create_flashcards calls it
FillParagraph ==
    /\ fill_pc = "start"
    /\ filled' = fill_paragraph(paragraph, MaxWidth)
    /\ fill_pc' = "done"
    /\ UNCHANGED paragraph
    /\ UNCHANGED <<tokVars, tagVars, nounVars, mainVars, codecVars, impVars>>

(***************************************************************************)
(* parse_noun: the noun grammar extractor                                  *)
(***************************************************************************)

\* ([Dd]er|[Dd]ie|[Dd]as)
ArticlesLowerOnly == {"der", "die", "das"}

Articles == {"der", "Der", "die", "Die", "das", "Das"}

\* [Dd]ie
PluralArticles == {"die", "Die"}

\* the translation class of parse_noun: [\w,;()'" -]
TranslationCharsNoHyphen ==
    WordChars \cup {",", ";", "(", ")", "'", "\"", " "}

TranslationChars == WordChars \cup {",", ";", "(", ")", "'", "\"", " ", "-"}

\* the translation class of the old parse_noun: [\w,;() ]
OldTranslationChars == WordChars \cup {",", ";", "(", ")", " "}

\* the three patterns of parse_noun, over the translation class tc and
\* closed by tail (the old parse_noun matches the line's newline)
ExplicitPlural(tc, tail) ==
    <<Lit("- "), Alt(Articles), Lit(" "), Plus(WordChars), Lit(", "),
      Alt(PluralArticles), Lit(" "), Plus(WordChars), Lit(" = "), Plus(tc),
      Lit(tail)>>

PluralEnding(tc, tail) ==
    <<Lit("- "), Alt(Articles), Lit(" "), Plus(WordChars), Lit(", "),
      Opt({"-"}), Star(WordChars), Lit(" = "), Plus(tc), Lit(tail)>>

NoPlural(tc, tail) ==
    <<Lit("- "), Alt(Articles), Lit(" "), Plus(WordChars), Lit(" = "),
      Plus(tc), Lit(tail)>>

\* no dict: "Not a noun" is raised
NotANoun == [ok |-> FALSE, singular |-> "", plural |-> None, translation |-> ""]

\* the dict returned for a match of the first pattern
noun_explicit_die(s, ends) ==
    [ok          |-> TRUE,
     singular    |-> Group(s, ends, 2, 2) \o " " \o Group(s, ends, 4, 4),
     plural      |-> "die " \o Group(s, ends, 8, 8),
     translation |-> Group(s, ends, 10, 10)]

noun_explicit(s, ends) ==
    [ok          |-> TRUE,
     singular    |-> Group(s, ends, 2, 2) \o " " \o Group(s, ends, 4, 4),
     plural      |-> Group(s, ends, 6, 8),
     translation |-> Group(s, ends, 10, 10)]

\* the plural made of the singular and group 3 of the second pattern
plural_of_keep_hyphen(singular, ending) ==
    "die " \o SliceFrom(singular, 4) \o ending

plural_of(singular, ending) ==
    IF ending = "-" THEN "die " \o SliceFrom(singular, 4)
    ELSE LET suffix == IF StartsWith(ending, "-") THEN SliceFrom(ending, 1)
                       ELSE ending
         IN  "die " \o SliceFrom(singular, 4) \o suffix

\* the dict returned for a match of the second pattern
noun_ending(s, ends) ==
    LET singular == Group(s, ends, 2, 2) \o " " \o Group(s, ends, 4, 4)
    IN  [ok          |-> TRUE,
         singular    |-> singular,
         plural      |-> plural_of(singular, Group(s, ends, 6, 7)),
         translation |-> Group(s, ends, 9, 9)]

\* the dict returned for a match of the third pattern: no key "plural"
noun_no_plural(s, ends) ==
    [ok          |-> TRUE,
     singular    |-> Group(s, ends, 2, 2) \o " " \o Group(s, ends, 4, 4),
     plural      |-> None,
     translation |-> Group(s, ends, 6, 6)]

\* the patterns in the order they are tried
match_noun(s, tc, tail) ==
    IF FullMatch(ExplicitPlural(tc, tail), s)
    THEN noun_explicit(s, MatchEnds(ExplicitPlural(tc, tail), s, 1, 1))
    ELSE IF FullMatch(PluralEnding(tc, tail), s)
    THEN noun_ending(s, MatchEnds(PluralEnding(tc, tail), s, 1, 1))
    ELSE IF FullMatch(NoPlural(tc, tail), s)
    THEN noun_no_plural(s, MatchEnds(NoPlural(tc, tail), s, 1, 1))
    ELSE NotANoun

\* parse_noun of parse_raw_phrases.py: whitespace is normalised first
parse_noun(it) == match_noun(Join(" ", Split(it)), TranslationChars, "")

\* parse_noun of old_parse_raw_nouns_from_orgfiles.py: the line as it is read
old_parse_noun(line) == match_noun(line, OldTranslationChars, "\n")

\* the parts noun items are made of
NounArticles == {"der", "Der", "die", "das", "Das", "DER", "dEr", "dem"}
NounWords    == {"Tisch", "Ei_1"}
NounPlurals  ==
    {[kind |-> "none", a |-> "", w |-> ""]}
    \cup {[kind |-> "explicit", a |-> a, w |-> "Tische"] :
            a \in {"die", "Die", "der", "das", "DIE"}}
    \cup {[kind |-> "ending", a |-> "", w |-> e] :
            e \in {"-", "-e", "en", "--e", "1"}}
Translations ==
    {"x", "the table", "a, b; (c)", "a-b", "it's", "\"so\"", "a!", "a.b",
     "a/b"}
Gaps         == {" ", "  "}

PluralText(pl) ==
    IF pl.kind = "none" THEN ""
    ELSE IF pl.kind = "explicit" THEN ", " \o pl.a \o " " \o pl.w
    ELSE ", " \o pl.w

NounIdle ==
    /\ item = ""
    /\ in_article = ""
    /\ in_word = ""
    /\ in_plural = [kind |-> "none", a |-> "", w |-> ""]
    /\ in_translation = ""
    /\ noun_pc = "idle"
    /\ noun = NotANoun
    /\ old_pc = "idle"
    /\ old_noun = NotANoun

\* an item as the tokenizer yields it: the "- " line with its newline
InitNoun ==
    /\ in_article \in NounArticles
    /\ in_word \in NounWords
    /\ in_plural \in NounPlurals
    /\ in_translation \in Translations
    /\ \E gap \in Gaps :
           item = "- " \o in_article \o gap \o in_word \o PluralText(in_plural)
                  \o " =" \o gap \o in_translation \o "\n"
    /\ noun_pc = "start"
    /\ noun = NotANoun
    /\ old_pc = "start"
    /\ old_noun = NotANoun

\* parse_noun returns a dict
ParseNounReturn ==
    /\ noun_pc = "start"
    /\ LET r == parse_noun(item)
       IN  r.ok /\ noun' = r
    /\ noun_pc' = "done"
    /\ UNCHANGED <<item, in_article, in_word, in_plural, in_translation,
                   old_pc, old_noun>>
    /\ UNCHANGED <<tokVars, tagVars, fillVars, mainVars, codecVars, impVars>>

\* parse_noun raises ItemFormatError("Not a noun")
ParseNounRaise ==
    /\ noun_pc = "start"
    /\ ~parse_noun(item).ok
    /\ noun_pc' = "ItemFormatError"
    /\ UNCHANGED <<item, in_article, in_word, in_plural, in_translation,
                   noun, old_pc, old_noun>>
    /\ UNCHANGED <<tokVars, tagVars, fillVars, mainVars, codecVars, impVars>>

\* the old parse_noun returns a dict
OldParseNounReturn ==
    /\ old_pc = "start"
    /\ LET r == old_parse_noun(item)
       IN  r.ok /\ old_noun' = r
    /\ old_pc' = "done"
    /\ UNCHANGED <<item, in_article, in_word, in_plural, in_translation,
                   noun_pc, noun>>
    /\ UNCHANGED <<tokVars, tagVars, fillVars, mainVars, codecVars, impVars>>

\* the old parse_noun raises LineFormatError("Not a noun")
OldParseNounRaise ==
    /\ old_pc = "start"
    /\ ~old_parse_noun(item).ok
    /\ old_pc' = "LineFormatError"
    /\ UNCHANGED <<item, in_article, in_word, in_plural, in_translation,
                   noun_pc, noun, old_noun>>
    /\ UNCHANGED <<tokVars, tagVars, fillVars, mainVars, codecVars, impVars>>

(***************************************************************************)
(* parse_item and the flashcard synthesizers, and the loop of __main__     *)
(***************************************************************************)

\* the while loop of _apply_tags: every tag of question_text unwrapped
RECURSIVE unwrap_tags(_)
unwrap_tags(q) ==
    IF TagStarts(q) = {} THEN q
    ELSE unwrap_tags(Replace(q, RawTagText(q), TagText(RawTagText(q))))

\* _apply_tags: (question_text, answer_text), or ItemFormatError
apply_tags(t) ==
    IF ~FullMatch(TextPattern, t)
    THEN [ok |-> FALSE, question |-> "", answer |-> ""]
    ELSE LET ends         == MatchEnds(TextPattern, t, 1, 1)
             tagless_text == Group(t, ends, 2, 2)
             front_tags   == Slice(t, 0, ends[1] - 1)
             back_tags    == SliceFrom(t, ends[2] - 1)
         IN  [ok       |-> TRUE,
              question |-> unwrap_tags(apply_special_tags(front_tags,
                                                          tagless_text,
                                                          back_tags)),
              answer   |-> tagless_text]

\* s.partition(sep): the parts before and after the first sep; without a
\* sep, s and ''
Partition(s, sep) ==
    LET found == {i \in 1..Len(s) : HasAt(s, sep, i)}
    IN  IF found = {} THEN [before |-> s, after |-> ""]
        ELSE LET i == CHOOSE x \in found : \A y \in found : x <= y
             IN  [before |-> Slice(s, 0, i - 1),
                  after  |-> SliceFrom(s, i - 1 + Len(sep))]

\* s.ljust(n)
Ljust(s, n) == IF Len(s) >= n THEN s ELSE s \o Rep(" ", n - Len(s))

\* str(n) of a line number
RECURSIVE Str(_)
Str(n) ==
    LET digit == <<"0", "1", "2", "3", "4", "5", "6", "7", "8", "9">>
    IN  IF n < 10 THEN digit[n + 1]
        ELSE Str(n \div 10) \o digit[(n % 10) + 1]

\* ParseResult: the depths of the headings and the column of the drill tag
ROOT_DEPTH      == 2
FRONTSIDE_DEPTH == 3
BACKSIDE_DEPTH  == 4
FILL_TO_TAG     == 30

\* ParseResult._set_header: flashcard_lines after it
set_header(header) == <<Rep("*", ROOT_DEPTH) \o " " \o header \o "\n">>

add_card_without_answer_heading(question, answer) ==
    <<Ljust(Rep("*", FRONTSIDE_DEPTH) \o " " \o "q", FILL_TO_TAG)
          \o ":drill:\n",
      question \o "\n",
      answer \o "\n">>

\* ParseResult._add_card with the default headers 'q' and 'a': the four
\* lines it appends
add_card(question, answer) ==
    <<Ljust(Rep("*", FRONTSIDE_DEPTH) \o " " \o "q", FILL_TO_TAG)
          \o ":drill:\n",
      question \o "\n",
      Rep("*", BACKSIDE_DEPTH) \o " " \o "a" \o "\n",
      answer \o "\n">>

\* the question texts of the noun cards; the source spells the second one
\* with the letter z-caron, written z here
GenderOf   == "Rod od *"
PluralOf   == "mnozina od *"
SingularOf == "jednina od *"

\* OldNoun._create_flashcards
OldNounLines(noun_dict) ==
    set_header(noun_dict.singular)
    \o add_card(GenderOf \o Partition(noun_dict.singular, " ").after \o "*",
                noun_dict.singular)
    \o (IF noun_dict.plural = None THEN <<>>
        ELSE add_card(PluralOf \o noun_dict.singular \o "*", noun_dict.plural)
             \o add_card(SingularOf \o noun_dict.plural \o "*",
                         noun_dict.singular))

\* NewNoun._create_flashcards
NewNounLinesAnswerFirst(noun_dict) ==
    set_header(noun_dict.singular)
    \o add_card(noun_dict.singular, noun_dict.translation)
    \o add_card("*" \o noun_dict.singular \o "*", noun_dict.translation)
    \o (IF noun_dict.plural = None THEN <<>>
        ELSE add_card(PluralOf \o noun_dict.singular \o "*", noun_dict.plural)
             \o add_card(SingularOf \o noun_dict.plural \o "*",
                         noun_dict.singular))

NewNounLines(noun_dict) ==
    set_header(noun_dict.singular)
    \o add_card(noun_dict.translation, noun_dict.singular)
    \o add_card("*" \o noun_dict.singular \o "*", noun_dict.translation)
    \o (IF noun_dict.plural = None THEN <<>>
        ELSE add_card(PluralOf \o noun_dict.singular \o "*", noun_dict.plural)
             \o add_card(SingularOf \o noun_dict.plural \o "*",
                         noun_dict.singular))

\* what a constructor of a ParseResult gives: its kind and flashcard_lines,
\* or the message of the ItemFormatError it raises
Returns(kind, lines) == [kind |-> kind, lines |-> lines, message |-> ""]
Raises(message) ==
    [kind |-> "ItemFormatError", lines |-> <<>>, message |-> message]
NoResult == [kind |-> "none", lines |-> <<>>, message |-> ""]

german_without_marker(before) ==
    LET g == Strip(SliceFrom(before, 2))
    IN  IF StartsWith(g, "(o)") THEN Strip(SliceFrom(g, 3)) ELSE g

\* SimplePair._create_flashcards: german[2:].strip() of the part before
\* the '='
german_text(before) == Strip(SliceFrom(before, 2))

simple_pair_lines_translation_header(german_q, german_a, translation_q, translation_a) ==
    set_header(translation_a)
    \o add_card(german_q, translation_a)
    \o add_card(translation_q, german_a)

\* SimplePair._create_flashcards: the header and the two cards
simple_pair_lines(german_q, german_a, translation_q, translation_a) ==
    set_header(german_a)
    \o add_card(german_q, translation_a)
    \o add_card(translation_q, german_a)

\* SimplePair._create_flashcards
SimplePair(it) ==
    LET normal      == Join(" ", Split(it))
        parts       == Partition(normal, "=")
        german      == german_text(parts.before)
        translation == Strip(parts.after)
        g           == apply_tags(german)
        t           == apply_tags(translation)
        german_q      == fill_paragraph(g.question, MaxWidth)
        german_a      == fill_paragraph(g.answer, MaxWidth)
        translation_q == fill_paragraph(t.question, MaxWidth)
        translation_a == fill_paragraph(t.answer, MaxWidth)
    IN  IF parts.after = "" THEN Raises("'=' not found in string")
        ELSE IF ~g.ok \/ ~t.ok THEN Raises("Tag format is wrong")
        ELSE Returns("SimplePair",
                     simple_pair_lines(german_q, german_a, translation_q,
                                       translation_a))

\* parse_item: the text of an "- (o) " item handed to parse_noun
old_noun_text_from_6(it) == "-" \o SliceFrom(it, 6)

old_noun_text(it) == "-" \o SliceFrom(it, 5)

\* the parts the items of a document are made of
ItemPrefixes     == {"", "(o) ", "(o)  ", "(o)", "(O) "}
ItemArticles     == {"der", "Das", "dem"}
ItemPlurals      == {"", ", -e", ", die Tische"}
ItemTranslations == {"the table\n", "the table", "the\n  table\n"}

\* one-item documents: noun lines with and without the old-entry marker
NounItems ==
    {"- " \o pre \o a \o " Tisch" \o pl \o " = " \o t :
        pre \in ItemPrefixes, a \in ItemArticles, pl \in ItemPlurals,
        t \in ItemTranslations}

\* the lines longer documents are made of: an old noun, a new noun, phrase
\* pairs with and without tags, a line without '=', a line with a broken
\* tag, and a continuation line
ItemLines ==
    {"- (o) der Tisch, -e = the table\n", "- der Tisch, -e = the table\n",
     "- (o) gut = good\n", "- <eng>Haus<x> = <*>house<y>\n", "- kein Paar\n",
     "- a<b = c\n", "  cont\n"}

\* largest number of lines of a document of items
MaxItems == 2

\* a noun item is split into the lines of the file it is read from
RECURSIVE FileLines(_)
FileLines(s) ==
    LET p == Partition(s, "\n")
    IN  IF p.after = "" THEN <<s>>
        ELSE <<p.before \o "\n">> \o FileLines(p.after)

ItemDocuments ==
    {FileLines(i) : i \in NounItems}
    \cup UNION {[1..n -> ItemLines] : n \in 0..MaxItems}

MainIdle ==
    /\ main_pc = "idle"
    /\ cur_item = ""
    /\ attempts = <<>>
    /\ result = NoResult
    /\ flashcards = <<>>
    /\ stderr = <<>>

\* __main__ up to the for loop: the file is wrapped and nothing is read
InitMain ==
    /\ file \in ItemDocuments
    /\ file_pos = 1
    /\ line_counter = 0
    /\ end_reached = FALSE
    /\ current_item_first_line = None
    /\ current_item = <<>>
    /\ yielded = <<>>
    /\ raised = "none"
    /\ main_pc = "next"
    /\ cur_item = ""
    /\ attempts = <<>>
    /\ result = NoResult
    /\ flashcards = <<>>
    /\ stderr = <<>>

\* for item in fwrap: __next__ returns the next item, or its TypeError ends
\* the run
MainNext ==
    /\ main_pc = "next"
    /\ ~end_reached
    /\ LET r == NextLoop(file_pos, line_counter, current_item_first_line, <<>>)
       IN  /\ file_pos' = r.pos
           /\ line_counter' = r.counter
           /\ end_reached' = r.end
           /\ current_item_first_line' = r.first
           /\ current_item' = r.deque
           /\ yielded' = IF r.kind = "item" THEN Append(yielded, r.value)
                         ELSE yielded
           /\ raised' = IF r.kind = "item" THEN "none" ELSE "TypeError"
           /\ cur_item' = IF r.kind = "item" THEN r.value ELSE cur_item
           /\ main_pc' = IF r.kind = "item" THEN "parse_item" ELSE "TypeError"
           /\ attempts' = IF r.kind = "item" THEN <<>> ELSE attempts
           /\ result' = IF r.kind = "item" THEN NoResult ELSE result
    /\ UNCHANGED <<file, flashcards, stderr>>
    /\ UNCHANGED <<tagVars, fillVars, nounVars, codecVars, impVars>>

\* for item in fwrap: __next__ raises StopIteration, the loop is left
MainStop ==
    /\ main_pc = "next"
    /\ end_reached
    /\ raised' = "StopIteration"
    /\ main_pc' = "done"
    /\ UNCHANGED <<file, file_pos, line_counter, end_reached,
                   current_item_first_line, current_item, yielded>>
    /\ UNCHANGED <<cur_item, attempts, result, flashcards, stderr>>
    /\ UNCHANGED <<tagVars, fillVars, nounVars, codecVars, impVars>>

\* parse_item: the item does not start with "- (o) ", the first try block
\* does nothing
SkipOldNoun ==
    /\ main_pc = "parse_item"
    /\ ~StartsWith(cur_item, "- (o) ")
    /\ main_pc' = "new_noun"
    /\ UNCHANGED <<cur_item, attempts, result, flashcards, stderr>>
    /\ UNCHANGED <<tokVars, tagVars, fillVars, nounVars, codecVars, impVars>>

\* parse_item: the item starts with "- (o) ": OldNoun(parse_noun(...)) is
\* returned, or ItemFormatError is passed over
TryOldNoun ==
    /\ main_pc = "parse_item"
    /\ StartsWith(cur_item, "- (o) ")
    /\ LET r == parse_noun(old_noun_text(cur_item))
       IN  /\ result' = IF r.ok THEN Returns("OldNoun", OldNounLines(r))
                        ELSE result
           /\ main_pc' = IF r.ok THEN "returned" ELSE "new_noun"
    /\ attempts' = Append(attempts, "old")
    /\ UNCHANGED <<cur_item, flashcards, stderr>>
    /\ UNCHANGED <<tokVars, tagVars, fillVars, nounVars, codecVars, impVars>>

\* parse_item: NewNoun(parse_noun(item)) is returned, or ItemFormatError is
\* passed over
TryNewNoun ==
    /\ main_pc = "new_noun"
    /\ LET r == parse_noun(cur_item)
       IN  /\ result' = IF r.ok THEN Returns("NewNoun", NewNounLines(r))
                        ELSE result
           /\ main_pc' = IF r.ok THEN "returned" ELSE "simple_pair"
    /\ attempts' = Append(attempts, "new")
    /\ UNCHANGED <<cur_item, flashcards, stderr>>
    /\ UNCHANGED <<tokVars, tagVars, fillVars, nounVars, codecVars, impVars>>

\* parse_item: SimplePair(item) is returned, or its ItemFormatError leaves
\* parse_item
TrySimplePair ==
    /\ main_pc = "simple_pair"
    /\ result' = SimplePair(cur_item)
    /\ main_pc' = IF SimplePair(cur_item).kind = "ItemFormatError"
                  THEN "except" ELSE "returned"
    /\ attempts' = Append(attempts, "pair")
    /\ UNCHANGED <<cur_item, flashcards, stderr>>
    /\ UNCHANGED <<tokVars, tagVars, fillVars, nounVars, codecVars, impVars>>

\* flashcards.extend(parse_item(item).flashcard_lines)
MainExtend ==
    /\ main_pc = "returned"
    /\ flashcards' = flashcards \o result.lines
    /\ main_pc' = "next"
    /\ UNCHANGED <<cur_item, attempts, result, stderr>>
    /\ UNCHANGED <<tokVars, tagVars, fillVars, nounVars, codecVars, impVars>>

\* except ItemFormatError: one line is written to sys.stderr
MainExcept ==
    /\ main_pc = "except"
    /\ stderr' = Append(stderr, "Bad item format around line "
                                \o Str(line_counter) \o ", message = "
                                \o result.message \o "\n")
    /\ main_pc' = "next"
    /\ UNCHANGED <<cur_item, attempts, result, flashcards>>
    /\ UNCHANGED <<tokVars, tagVars, fillVars, nounVars, codecVars, impVars>>

(***************************************************************************)
(* The metadata codec: write_one_flashcard of sql2text.py and              *)
(* FileWrapper and extract_properties of text2sql.py                       *)
(***************************************************************************)

\* the value of a decimal digit
DigitValue(c) == CHOOSE n \in 0..9 : Str(n) = c

\* the number a string of digits stands for
RECURSIVE NatOf(_)
NatOf(ds) ==
    IF ds = "" THEN 0
    ELSE 10 * NatOf(Slice(ds, 0, Len(ds) - 1)) + DigitValue(At(ds, Len(ds)))

AllDigits(s) == s # "" /\ \A i \in 1..Len(s) : At(s, i) \in Digits

\* s without its leading, and without its trailing, zeros
NoLeadingZeros(s)  == SliceFrom(s, Run({"0"}, s, 1))
NoTrailingZeros(s) ==
    LET keep == {n \in 0..Len(s) : n = 0 \/ At(s, n) # "0"}
    IN  Slice(s, 0, CHOOSE n \in keep : \A m \in keep : m <= n)

\* str(n) of an int
str_int(n) == IF n < 0 THEN "-" \o Str(0 - n) ELSE Str(n)

\* int(s) of a stripped str: a sign and digits, single underscores between
\* digits allowed; anything else is a ValueError
int_of(s) ==
    LET signed == s # "" /\ At(s, 1) \in {"+", "-"}
        body   == IF signed THEN SliceFrom(s, 1) ELSE s
        ds     == Replace(body, "_", "")
        ok     == /\ AllDigits(ds)
                  /\ At(body, 1) # "_"
                  /\ At(body, Len(body)) # "_"
                  /\ ~Contains(body, "__")
    IN  IF ~ok THEN [ok |-> FALSE, v |-> 0]
        ELSE [ok |-> TRUE,
              v  |-> IF signed /\ At(s, 1) = "-" THEN 0 - NatOf(ds)
                     ELSE NatOf(ds)]

\* a float: the value 0.d * 10^pt for the digits d, without leading and
\* trailing zeros, negated if neg; zero has no digits
Float(neg, d, pt) == [neg |-> neg, d |-> d, pt |-> pt]

\* float(s) of a stripped str that is a decimal literal: a sign, digits
\* with or without a point and an exponent; anything else is a ValueError
\* (inf, nan and underscores are not among the values of the model)
float_of(s) ==
    LET signed   == s # "" /\ At(s, 1) \in {"+", "-"}
        body     == IF signed THEN SliceFrom(s, 1) ELSE s
        epos     == {i \in 1..Len(body) : At(body, i) \in {"e", "E"}}
        hasExp   == epos # {}
        e        == IF hasExp THEN CHOOSE i \in epos : \A j \in epos : i <= j
                    ELSE Len(body) + 1
        mantissa == Slice(body, 0, e - 1)
        expText  == SliceFrom(body, e)
        expSign  == expText # "" /\ At(expText, 1) \in {"+", "-"}
        expDs    == IF expSign THEN SliceFrom(expText, 1) ELSE expText
        hasPoint == Contains(mantissa, ".")
        parts    == Partition(mantissa, ".")
        digits   == parts.before \o parts.after
        ok       == /\ AllDigits(digits)
                    /\ hasPoint \/ parts.before # ""
                    /\ hasExp => AllDigits(expDs)
        exp      == IF ~hasExp THEN 0
                    ELSE IF expSign /\ At(expText, 1) = "-"
                    THEN 0 - NatOf(expDs) ELSE NatOf(expDs)
        lead     == Run({"0"}, digits, 1)
        d        == NoTrailingZeros(NoLeadingZeros(digits))
    IN  IF ~ok THEN [ok |-> FALSE, v |-> Float(FALSE, "", 0)]
        ELSE [ok |-> TRUE,
              v  |-> IF d = "" THEN Float(FALSE, "", 0)
                     ELSE Float(signed /\ At(s, 1) = "-", d,
                                Len(parts.before) + exp - lead)]

\* str(x) of a float: the shortest digits that give x back, without an
\* exponent for 1e-4 <= |x| < 1e16 and with one otherwise
str_float(x) ==
    LET sign == IF x.neg THEN "-" ELSE ""
        n    == Len(x.d)
        ex   == x.pt - 1
        exDs == IF ex < 0 THEN Str(0 - ex) ELSE Str(ex)
    IN  IF x.d = "" THEN sign \o "0.0"
        ELSE IF x.pt >= -3 /\ x.pt <= 16
        THEN IF x.pt <= 0
             THEN sign \o "0." \o Rep("0", 0 - x.pt) \o x.d
             ELSE IF x.pt >= n
             THEN sign \o x.d \o Rep("0", x.pt - n) \o ".0"
             ELSE sign \o Slice(x.d, 0, x.pt) \o "." \o SliceFrom(x.d, x.pt)
        ELSE sign \o At(x.d, 1)
             \o (IF n > 1 THEN "." \o SliceFrom(x.d, 1) ELSE "")
             \o "e" \o (IF ex < 0 THEN "-" ELSE "+")
             \o (IF Len(exDs) < 2 THEN "0" \o exDs ELSE exDs)

\* the names of the fields of shared.Properties, in its order
PropertyNames ==
    <<"SCHEDULED", "ID", "DRILL_LAST_INTERVAL", "DRILL_REPEATS_SINCE_FAIL",
      "DRILL_TOTAL_REPEATS", "DRILL_FAILURE_COUNT", "DRILL_AVERAGE_QUALITY",
      "DRILL_EASE", "DRILL_LAST_QUALITY", "DRILL_LAST_REVIEWED">>

\* the properties extract_properties converts with float, and with int
FloatNames == {"DRILL_LAST_INTERVAL", "DRILL_AVERAGE_QUALITY", "DRILL_EASE"}
IntNames   == {"DRILL_REPEATS_SINCE_FAIL", "DRILL_TOTAL_REPEATS",
               "DRILL_FAILURE_COUNT", "DRILL_LAST_QUALITY"}

\* str(value), and for the str fields the value itself
str_of(name, value) ==
    IF name \in FloatNames THEN str_float(value)
    ELSE IF name \in IntNames THEN str_int(value)
    ELSE value

\* write_one_flashcard: the lines written to org_file
write_one_flashcard(flashcard) ==
    <<Rep("*", 3) \o " q" \o Rep(" ", 30) \o ":drill:" \o "\n",
      Rep(" ", 4) \o "SCHEDULED: " \o flashcard.SCHEDULED \o "\n",
      Rep(" ", 4) \o ":PROPERTIES:\n">>
    \o [i \in 1..9 |->
           Rep(" ", 4) \o ":" \o PropertyNames[i + 1] \o ": "
           \o str_of(PropertyNames[i + 1], flashcard[PropertyNames[i + 1]])
           \o "\n"]
    \o <<Rep(" ", 4) \o ":END:\n",
         flashcard.FRONT \o "\n",
         Rep("*", 4) \o " a\n",
         flashcard.BACK \o "\n">>

\* FileWrapper.__init__
NewFileWrapper ==
    [pos |-> 1, linecounter |-> 0, currentline |-> None,
     return_current_line |-> FALSE]

readline_keeps_handing_back(f, fw) ==
    IF fw.return_current_line /\ fw.currentline # None
    THEN [eof |-> FALSE, line |-> fw.currentline, fw |-> fw]
    ELSE IF fw.pos > Len(f)
    THEN [eof |-> TRUE, line |-> "", fw |-> [fw EXCEPT !.currentline = ""]]
    ELSE [eof  |-> FALSE,
          line |-> f[fw.pos],
          fw   |-> [fw EXCEPT !.pos = fw.pos + 1,
                              !.linecounter = fw.linecounter + 1,
                              !.currentline = f[fw.pos]]]

readline_never_hands_back(f, fw) ==
    IF fw.pos > Len(f)
    THEN [eof |-> TRUE, line |-> "", fw |-> [fw EXCEPT !.currentline = ""]]
    ELSE [eof  |-> FALSE,
          line |-> f[fw.pos],
          fw   |-> [fw EXCEPT !.pos = fw.pos + 1,
                              !.linecounter = fw.linecounter + 1,
                              !.currentline = f[fw.pos],
                              !.return_current_line = FALSE]]

\* FileWrapper.readline over the lines f: the line and the wrapper after
\* it, or OrgEOFError
readline(f, fw) ==
    IF fw.return_current_line /\ fw.currentline # None
    THEN [eof  |-> FALSE,
          line |-> fw.currentline,
          fw   |-> [fw EXCEPT !.return_current_line = FALSE]]
    ELSE IF fw.pos > Len(f)
    THEN [eof  |-> TRUE,
          line |-> "",
          fw   |-> [fw EXCEPT !.currentline = ""]]
    ELSE [eof  |-> FALSE,
          line |-> f[fw.pos],
          fw   |-> [fw EXCEPT !.pos = fw.pos + 1,
                              !.linecounter = fw.linecounter + 1,
                              !.currentline = f[fw.pos]]]

\* [\w\s.\[\]:-]
ValueChars == WordChars \cup Whitespace \cup {".", "[", "]", ":", "-"}

\* lineformat_re.match(line): the name and the value of :(\w+):([...]+) at
\* the start of line
lineformat_match(line) ==
    LET n     == Run(WordChars, line, 2)
        colon == 2 + n
        m     == Run(ValueChars, line, colon + 1)
    IN  IF HasAt(line, ":", 1) /\ n >= 1 /\ HasAt(line, ":", colon) /\ m >= 1
        THEN [ok    |-> TRUE,
              name  |-> SubSeq(line, 2, colon - 1),
              value |-> SubSeq(line, colon + 1, colon + m)]
        ELSE [ok |-> FALSE, name |-> "", value |-> ""]

\* what extract_properties and extract_flashcard end with: a value, or the
\* exception raised, with the wrapper as they leave it
Outcome(kind, fw, value, message) ==
    [kind |-> kind, fw |-> fw, value |-> value, message |-> message]

\* the locals of extract_properties that are bound: no property yet
NoProperties == [n \in {} |-> ""]

\* the statement that binds the local of the property name to value
bind_last_wins(props, name, value) == (name :> value) @@ props

unexpected_property_ends_block(fw, props, name) ==
    Outcome("Properties", fw, props, "")

\* extract_properties, the last else of its loop: a name that is none of
\* the nine raises OrgLineFormatError
unexpected_property(fw, props, name) ==
    Outcome("OrgLineFormatError", fw, props, "Unexpected property " \o name)

\* the while loop of extract_properties, props being its bound locals
RECURSIVE extract_properties_loop(_, _, _)
extract_properties_loop(f, fw, props) ==
    LET r    == readline(f, fw)
        line == Strip(r.line)
        m    == lineformat_match(line)
        name == m.name
        val  == Strip(m.value)
    IN  IF r.eof THEN Outcome("OrgEOFError", r.fw, props, "")
        ELSE IF line = ":PROPERTIES:"
        THEN extract_properties_loop(f, r.fw, props)
        ELSE IF line = ":END:"
        THEN IF \A i \in 1..Len(PropertyNames) :
                    PropertyNames[i] \in DOMAIN props
             THEN Outcome("Properties", r.fw, props, "")
             ELSE Outcome("OrgLineFormatError", r.fw, props,
                          "A property that should have been defined wasn't defined.")
        ELSE IF line = ""
        THEN extract_properties_loop(f, r.fw, props)
        ELSE IF StartsWith(line, "SCHEDULED:")
        THEN IF Partition(line, "SCHEDULED:").after = ""
             THEN Outcome("OrgLineFormatError", r.fw, props,
                          "Error in the format of 'SCHEDULED'")
             ELSE extract_properties_loop(
                      f, r.fw,
                      bind_last_wins(props, "SCHEDULED",
                           Strip(Partition(line, "SCHEDULED:").after)))
        ELSE IF ~m.ok
        THEN Outcome("OrgLineFormatError", r.fw, props,
                     "Line doesn't contain org-mode property.")
        ELSE IF name \in {"ID", "DRILL_LAST_REVIEWED"}
        THEN extract_properties_loop(f, r.fw, bind_last_wins(props, name, val))
        ELSE IF name \in FloatNames
        THEN IF float_of(val).ok
             THEN extract_properties_loop(
                      f, r.fw, bind_last_wins(props, name, float_of(val).v))
             ELSE Outcome("ValueError", r.fw, props, "")
        ELSE IF name \in IntNames
        THEN IF int_of(val).ok
             THEN extract_properties_loop(
                      f, r.fw, bind_last_wins(props, name, int_of(val).v))
             ELSE Outcome("ValueError", r.fw, props, "")
        ELSE unexpected_property(r.fw, props, name)

\* extract_properties
extract_properties(f, fw) == extract_properties_loop(f, fw, NoProperties)

\* the flashcards the codec is run on: ids, reals, integers and dates of
\* the database
CardIds       == {"a1-b2", "a/b"}
CardIntervals ==
    {Float(FALSE, "", 0), Float(FALSE, "25", 1), Float(FALSE, "4", 3),
     Float(FALSE, "1", -2), Float(FALSE, "1", -4), Float(FALSE, "1", 17)}
CardRepeats   == {0, 12, -1}
CardReviewed  == {"[2020-01-01 Wed 10:00]", ""}

Cards ==
    {[ID                       |-> id,
      SCHEDULED                |-> "<2020-01-02>",
      FRONT                    |-> "front",
      BACK                     |-> "back",
      DRILL_LAST_INTERVAL      |-> dli,
      DRILL_REPEATS_SINCE_FAIL |-> drsf,
      DRILL_TOTAL_REPEATS      |-> 7,
      DRILL_FAILURE_COUNT      |-> 1,
      DRILL_AVERAGE_QUALITY    |-> Float(FALSE, "3625", 1),
      DRILL_EASE               |-> Float(TRUE, "15", 1),
      DRILL_LAST_QUALITY       |-> 4,
      DRILL_LAST_REVIEWED      |-> dlr,
      PWCENTRY                 |-> "Der Stuhl"] :
        id \in CardIds, dli \in CardIntervals, drsf \in CardRepeats,
        dlr \in CardReviewed}

NoCard == [ID |-> ""]

CodecIdle ==
    /\ card = NoCard
    /\ org_file = <<>>
    /\ codec_pc = "idle"
    /\ decoded = Outcome("none", NewFileWrapper, NoProperties, "")

\* a flashcard read from the database
InitCodec ==
    /\ card \in Cards
    /\ org_file = <<>>
    /\ codec_pc = "write"
    /\ decoded = Outcome("none", NewFileWrapper, NoProperties, "")

\* write_one_flashcard(flashcard, org_file)
WriteOneFlashcard ==
    /\ codec_pc = "write"
    /\ org_file' = org_file \o write_one_flashcard(card)
    /\ codec_pc' = "read"
    /\ UNCHANGED <<card, decoded>>
    /\ UNCHANGED <<tokVars, tagVars, fillVars, nounVars, mainVars, impVars>>

\* the drill header is read, then extract_properties(filewrp) is called
ExtractProperties ==
    /\ codec_pc = "read"
    /\ decoded' = extract_properties(org_file,
                                     readline(org_file, NewFileWrapper).fw)
    /\ codec_pc' = "done"
    /\ UNCHANGED <<card, org_file>>
    /\ UNCHANGED <<tokVars, tagVars, fillVars, nounVars, mainVars, impVars>>

(***************************************************************************)
(* The import path: read_and_save_flashcards of text2sql.py                *)
(***************************************************************************)

\* is_org_header: stars, then a space; a line of stars only gives None
is_org_header(line) ==
    /\ HasAt(line, "*", 1)
    /\ HasAt(line, " ", 2 + Run({"*"}, line, 2))

\* s.endswith(suffix)
EndsWith(s, suffix) ==
    Len(s) >= Len(suffix) /\ SliceFrom(s, Len(s) - Len(suffix)) = suffix

\* is_drill_header
is_drill_header(line) ==
    is_org_header(line) /\ EndsWith(Strip(line), ":drill:")

\* extract_pwce_name: group 2 of (\*+) ([\w\s]+) matched at the start of
\* line, stripped; without a match m is None and m.group raises
\* AttributeError
extract_pwce_name(line) ==
    LET stars == Run({"*"}, line, 1)
        n     == Run(WordChars \cup Whitespace, line, stars + 2)
    IN  IF stars >= 1 /\ HasAt(line, " ", stars + 1) /\ n >= 1
        THEN [ok   |-> TRUE,
              name |-> Strip(SubSeq(line, stars + 2, stars + 1 + n))]
        ELSE [ok |-> FALSE, name |-> ""]

\* extract_flashcard, first while loop: the lines up to an org header are
\* the front
RECURSIVE front_loop(_, _, _, _)
front_loop(f, fw, line, front) ==
    IF is_org_header(line) THEN Outcome("front", fw, front, "")
    ELSE LET r == readline(f, fw)
         IN  IF r.eof THEN Outcome("OrgEOFError", r.fw, front, "")
             ELSE front_loop(f, r.fw, r.line, Append(front, line))

\* extract_flashcard, second while loop: the lines up to an org header,
\* which is handed back, or up to the end of the file are the back
RECURSIVE back_loop(_, _, _, _)
back_loop(f, fw, line, back) ==
    IF is_org_header(line)
    THEN Outcome("back", [fw EXCEPT !.return_current_line = TRUE], back, "")
    ELSE LET r == readline(f, fw)
         IN  IF r.eof THEN Outcome("back", r.fw, Append(back, line), "")
             ELSE back_loop(f, r.fw, r.line, Append(back, line))

\* the Flashcard extract_flashcard builds
Flashcard(properties, front, back, pwce) ==
    [ID                       |-> properties["ID"],
     SCHEDULED                |-> properties["SCHEDULED"],
     FRONT                    |-> Strip(Join("", front)),
     BACK                     |-> Strip(Join("", back)),
     DRILL_LAST_INTERVAL      |-> properties["DRILL_LAST_INTERVAL"],
     DRILL_REPEATS_SINCE_FAIL |-> properties["DRILL_REPEATS_SINCE_FAIL"],
     DRILL_TOTAL_REPEATS      |-> properties["DRILL_TOTAL_REPEATS"],
     DRILL_FAILURE_COUNT      |-> properties["DRILL_FAILURE_COUNT"],
     DRILL_AVERAGE_QUALITY    |-> properties["DRILL_AVERAGE_QUALITY"],
     DRILL_EASE               |-> properties["DRILL_EASE"],
     DRILL_LAST_QUALITY       |-> properties["DRILL_LAST_QUALITY"],
     DRILL_LAST_REVIEWED      |-> properties["DRILL_LAST_REVIEWED"],
     PWCENTRY                 |-> pwce]

\* extract_flashcard from the line after the back-side heading, r being
\* what readline gave for it
extract_back(f, p, fr, r, pwce) ==
    IF r.eof THEN Outcome("OrgEOFError", r.fw, <<>>, "")
    ELSE LET bk == back_loop(f, r.fw, r.line, <<>>)
         IN  Outcome("Flashcard", bk.fw,
                     Flashcard(p.value, fr.value, bk.value, pwce), "")

\* extract_flashcard from the end of its first loop, fr being what the
\* loop gave
extract_after_front(f, p, fr, pwce) ==
    IF fr.kind # "front" THEN fr
    ELSE extract_back(f, p, fr, readline(f, fr.fw), pwce)

\* extract_flashcard from the first line after the block, r being what
\* readline gave for it
extract_front(f, p, r, pwce) ==
    IF r.eof THEN Outcome("OrgEOFError", r.fw, <<>>, "")
    ELSE extract_after_front(f, p, front_loop(f, r.fw, r.line, <<>>), pwce)

\* extract_flashcard from the return of extract_properties, p being what
\* it gave
extract_after_properties(f, p, pwce) ==
    IF p.kind # "Properties" THEN p
    ELSE extract_front(f, p, readline(f, p.fw), pwce)

\* extract_flashcard: the Flashcard, or the exception that leaves it
extract_flashcard(f, fw, pwce) ==
    extract_after_properties(f, extract_properties(f, fw), pwce)

\* insert_flashcard_into_db: insert or replace the row of the flashcard's
\* ID, SCHEDULED cut to its date
insert_flashcard_into_db(flashcard, rows) ==
    (flashcard.ID :>
        [flashcard EXCEPT !.SCHEDULED = Slice(flashcard.SCHEDULED, 1, 11)])
    @@ rows

\* the record logging.warning writes for an OrgLineFormatError raised with
\* the wrapper fw
warning(fw, message) ==
    "OrgLineFormatError at line" \o Str(fw.linecounter) \o ": '" \o message
    \o "'. line = '" \o fw.currentline

\* the lines drill documents are made of
GroupHeading  == "* Der Stuhl\n"
OtherHeading  == "** Die Kurve\n"
DrillHeading  == "*** q                         :drill:\n"
AnswerHeading == "**** a\n"
Scheduled     == "    SCHEDULED: <2020-01-02 Thu>\n"
PropertyLine(name, value) == "    :" \o name \o ": " \o value \o "\n"

\* the nine property lines of an entry with the given ID
NineProperties(id) ==
    <<PropertyLine("ID", id),
      PropertyLine("DRILL_LAST_INTERVAL", "4.14"),
      PropertyLine("DRILL_REPEATS_SINCE_FAIL", "2"),
      PropertyLine("DRILL_TOTAL_REPEATS", "7"),
      PropertyLine("DRILL_FAILURE_COUNT", "1"),
      PropertyLine("DRILL_AVERAGE_QUALITY", "3.625"),
      PropertyLine("DRILL_EASE", "2.5"),
      PropertyLine("DRILL_LAST_QUALITY", "4"),
      PropertyLine("DRILL_LAST_REVIEWED", "[2020-01-01 Wed 10:00]")>>

\* a drill entry: its heading, its block and its body
Entry(block, body) == <<DrillHeading>> \o block \o body

Body == <<"front\n", AnswerHeading, "back\n">>

\* the parts drill documents are made of: headings, a well-formed entry,
\* and entries with a property missing, with an unknown property, with a
\* property and the SCHEDULED line given twice, with a block that is not
\* closed, with no back-side heading, with no back text, and with a number
\* that is none
Segments ==
    {<<OtherHeading>>,
     Entry(<<Scheduled, "    :PROPERTIES:\n">> \o NineProperties("x1")
           \o <<"    :END:\n">>, Body),
     Entry(<<Scheduled, "    :PROPERTIES:\n">>
           \o Tail(NineProperties("x2")) \o <<"    :END:\n">>, Body),
     Entry(<<Scheduled, "    :PROPERTIES:\n">> \o NineProperties("x3")
           \o <<PropertyLine("FOO", "bar"), "    :END:\n">>, Body),
     Entry(<<Scheduled, "    :PROPERTIES:\n">> \o NineProperties("x4")
           \o <<PropertyLine("ID", "x5"),
                "    SCHEDULED: <2021-03-04 Thu>\n", "    :END:\n">>, Body),
     Entry(<<Scheduled, "    :PROPERTIES:\n", PropertyLine("ID", "x6")>>,
           <<>>),
     Entry(<<Scheduled, "    :PROPERTIES:\n">> \o NineProperties("x7")
           \o <<"    :END:\n">>, <<"front\n", AnswerHeading>>),
     Entry(<<Scheduled, "    :PROPERTIES:\n">> \o NineProperties("x8")
           \o <<"    :END:\n">>, <<"front\n">>),
     Entry(<<PropertyLine("DRILL_TOTAL_REPEATS", "many")>>, Body),
     <<"* (alt)\n">>}

\* largest number of parts of a drill document, after its first heading
MaxSegments == 2

RECURSIVE Flatten(_)
Flatten(seqs) ==
    IF seqs = <<>> THEN <<>> ELSE Head(seqs) \o Flatten(Tail(seqs))

DrillDocuments ==
    {first \o Flatten(segs) :
        first \in {<<>>, <<GroupHeading>>},
        segs \in UNION {[1..n -> Segments] : n \in 0..MaxSegments}}

\* the rows of the table of flashcards: none
NoRows == [id \in {} |-> [ID |-> id]]

ImportIdle ==
    /\ imp_file = <<>>
    /\ filewrp = NewFileWrapper
    /\ pwce_name = None
    /\ flashcards_counter = 0
    /\ db = NoRows
    /\ calls = <<>>
    /\ log = <<>>
    /\ imp_pc = "idle"

\* read_and_save_flashcards before its loop, over a new FileWrapper and an
\* empty database
InitImport ==
    /\ imp_file \in DrillDocuments
    /\ filewrp = NewFileWrapper
    /\ pwce_name = None
    /\ flashcards_counter = 0
    /\ db = NoRows
    /\ calls = <<>>
    /\ log = <<>>
    /\ imp_pc = "loop"

\* the line the next pass of the loop reads
NextLine == readline(imp_file, filewrp)

\* the call of extract_flashcard for the heading in line header, and what
\* it ended with
Call(header, o) ==
    [header |-> header, kind |-> o.kind, last |-> o.fw.linecounter,
     pwce |-> pwce_name, value |-> o.value]

\* a pass of the loop: readline raises OrgEOFError, break
ImportEOF ==
    /\ imp_pc = "loop"
    /\ NextLine.eof
    /\ filewrp' = NextLine.fw
    /\ imp_pc' = "done"
    /\ UNCHANGED <<imp_file, pwce_name, flashcards_counter, db, calls, log>>
    /\ UNCHANGED <<tokVars, tagVars, fillVars, nounVars, mainVars, codecVars>>

\* a pass of the loop: a drill header and no pwce_name, OrgLineFormatError
\* is raised and logged
ImportDrillNoGroup ==
    /\ imp_pc = "loop"
    /\ ~NextLine.eof
    /\ is_drill_header(NextLine.line)
    /\ pwce_name = None
    /\ filewrp' = NextLine.fw
    /\ log' = Append(log, warning(NextLine.fw,
                  "pwce_name is None but should have been set. Skipping flashcard"))
    /\ calls' = Append(calls,
                       Call(NextLine.fw.linecounter,
                            Outcome("NoGroup", NextLine.fw, <<>>, "")))
    /\ UNCHANGED <<imp_file, pwce_name, flashcards_counter, db, imp_pc>>
    /\ UNCHANGED <<tokVars, tagVars, fillVars, nounVars, mainVars, codecVars>>

\* what the loop does with o, the Flashcard or the exception that
\* extract_flashcard gave for the heading in line header: the Flashcard is
\* stored and counted, OrgLineFormatError is logged, OrgEOFError ends the
\* loop, ValueError ends the run
handle_flashcard(header, o) ==
    /\ filewrp' = o.fw
    /\ calls' = Append(calls, Call(header, o))
    /\ db' = IF o.kind = "Flashcard"
             THEN insert_flashcard_into_db(o.value, db) ELSE db
    /\ flashcards_counter' = IF o.kind = "Flashcard"
                             THEN flashcards_counter + 1
                             ELSE flashcards_counter
    /\ log' = IF o.kind = "OrgLineFormatError"
              THEN Append(log, warning(o.fw, o.message)) ELSE log
    /\ imp_pc' = IF o.kind = "OrgEOFError" THEN "done"
                 ELSE IF o.kind = "ValueError" THEN "ValueError"
                 ELSE "loop"

\* a pass of the loop: a drill header, extract_flashcard is called
ImportDrill ==
    /\ imp_pc = "loop"
    /\ ~NextLine.eof
    /\ is_drill_header(NextLine.line)
    /\ pwce_name # None
    /\ handle_flashcard(NextLine.fw.linecounter,
                        extract_flashcard(imp_file, NextLine.fw, pwce_name))
    /\ UNCHANGED <<imp_file, pwce_name>>
    /\ UNCHANGED <<tokVars, tagVars, fillVars, nounVars, mainVars, codecVars>>

\* a pass of the loop: an org header that is no drill header gives the
\* pwce_name, or extract_pwce_name ends the run with AttributeError
ImportHeading ==
    /\ imp_pc = "loop"
    /\ ~NextLine.eof
    /\ ~is_drill_header(NextLine.line)
    /\ is_org_header(NextLine.line)
    /\ filewrp' = NextLine.fw
    /\ LET m == extract_pwce_name(NextLine.line)
       IN  /\ pwce_name' = IF m.ok THEN m.name ELSE pwce_name
           /\ imp_pc' = IF m.ok THEN "loop" ELSE "AttributeError"
    /\ UNCHANGED <<imp_file, flashcards_counter, db, calls, log>>
    /\ UNCHANGED <<tokVars, tagVars, fillVars, nounVars, mainVars, codecVars>>

\* a pass of the loop: any other line, continue
ImportSkip ==
    /\ imp_pc = "loop"
    /\ ~NextLine.eof
    /\ ~is_drill_header(NextLine.line)
    /\ ~is_org_header(NextLine.line)
    /\ filewrp' = NextLine.fw
    /\ UNCHANGED <<imp_file, pwce_name, flashcards_counter, db, calls, log,
                   imp_pc>>
    /\ UNCHANGED <<tokVars, tagVars, fillVars, nounVars, mainVars, codecVars>>

(***************************************************************************)
(* Specifications                                                          *)
(***************************************************************************)

TokInit    == /\ InitTok /\ TagIdle /\ FillIdle /\ NounIdle /\ MainIdle
              /\ CodecIdle /\ ImportIdle
TagInit    == /\ TokIdle /\ InitTag /\ FillIdle /\ NounIdle /\ MainIdle
              /\ CodecIdle /\ ImportIdle
FillInit   == /\ TokIdle /\ TagIdle /\ InitFill /\ NounIdle /\ MainIdle
              /\ CodecIdle /\ ImportIdle
NounInit   == /\ TokIdle /\ TagIdle /\ FillIdle /\ InitNoun /\ MainIdle
              /\ CodecIdle /\ ImportIdle
MainInit   == /\ InitMain /\ TagIdle /\ FillIdle /\ NounIdle /\ CodecIdle
              /\ ImportIdle
CodecInit  == /\ TokIdle /\ TagIdle /\ FillIdle /\ NounIdle /\ MainIdle
              /\ InitCodec /\ ImportIdle
ImportInit == /\ TokIdle /\ TagIdle /\ FillIdle /\ NounIdle /\ MainIdle
              /\ CodecIdle /\ InitImport

NextTok  == NextItem \/ NextStop
NextTag  == ApplyTagsReject \/ ApplyTagsMatch \/ UnwrapTag \/ ApplyTagsReturn
NextFill == FillParagraph
NextNoun == \/ ParseNounReturn \/ ParseNounRaise
            \/ OldParseNounReturn \/ OldParseNounRaise
NextCodec == WriteOneFlashcard \/ ExtractProperties
NextImport == \/ ImportEOF \/ ImportDrillNoGroup \/ ImportDrill
              \/ ImportHeading \/ ImportSkip
NextMain == \/ MainNext \/ MainStop \/ SkipOldNoun \/ TryOldNoun
            \/ TryNewNoun \/ TrySimplePair \/ MainExtend \/ MainExcept

\* the tokenizer over every document
SpecTok == TokInit /\ [][NextTok]_vars

\* the tag processor over every phrase
SpecTag == TagInit /\ [][NextTag]_vars

\* the word wrapper over every paragraph
SpecFill == FillInit /\ [][NextFill]_vars

\* the noun grammar extractors over every item
SpecNoun == NounInit /\ [][NextNoun]_vars

\* __main__ of parse_raw_phrases.py over every document of items
SpecMain == MainInit /\ [][NextMain]_vars

\* the metadata codec over every flashcard: written, then read back
SpecCodec == CodecInit /\ [][NextCodec]_vars

\* read_and_save_flashcards over every drill document
SpecImport == ImportInit /\ [][NextImport]_vars

Init == \/ TokInit \/ TagInit \/ FillInit \/ NounInit \/ MainInit
        \/ CodecInit \/ ImportInit

Next == \/ NextTok \/ NextTag \/ NextFill \/ NextNoun \/ NextMain
        \/ NextCodec \/ NextImport

Spec == Init /\ [][Next]_vars

(***************************************************************************)
(* The tokenizer's properties                                              *)
(***************************************************************************)

\* a line that is neither a start, a continuation, a comment nor blank
Terminating(line) ==
    /\ ~StartsWith(line, "- ")
    /\ ~StartsWith(line, "  ")
    /\ ~StartsWith(line, "#")
    /\ ~IsSpace(line)

\* the index of the first terminating line of the document, or its length + 1
FirstStop ==
    LET stops == {i \in 1..Len(file) : Terminating(file[i])}
    IN  IF stops = {} THEN Len(file) + 1
        ELSE CHOOSE i \in stops : \A j \in stops : i <= j

\* the indices of the "- " lines before the first terminating line
Starts == {i \in 1..(FirstStop - 1) : StartsWith(file[i], "- ")}

\* the index of the k-th of them
KthStart(k) == CHOOSE i \in Starts : Cardinality({j \in Starts : j < i}) = k - 1

\* the two-space lines among the lines lo..hi of the document, joined
Continuations(lo, hi) ==
    Join("", SelectSeq(SubSeq(file, lo, hi), LAMBDA l : StartsWith(l, "  ")))

\* the index after the last line of the k-th item
ItemEnd(k) == IF k = Cardinality(Starts) THEN FirstStop ELSE KthStart(k + 1)

\* C1: iterating the tokenizer to exhaustion over any document raises no
\* error but the end-of-sequence signal, and when the sequence has ended
\* every "- " line before the first terminating line has yielded its item
C1_ExhaustionRaisesNoError ==
    /\ raised # "TypeError"
    /\ raised = "StopIteration" => Len(yielded) = Cardinality(Starts)

\* C2 as claimed: every item yielded is its start line without the "- "
\* marker, followed by its continuation lines; "- a\n  cont\n- b\n" yields
\* "a\n  cont\n" and "b\n"
C2_ItemsWithoutMarker ==
    /\ \A k \in 1..Len(yielded) :
           yielded[k] = SliceFrom(file[KthStart(k)], 2)
                        \o Continuations(KthStart(k) + 1, ItemEnd(k) - 1)
    /\ (file = <<"- a\n", "  cont\n", "- b\n">> /\ end_reached)
           => yielded = <<"a\n  cont\n", "b\n">>

\* C2 as amended: every item yielded is its start line as it is read, the
\* "- " marker included, followed by its continuation lines (the first item
\* also takes the two-space lines before its start line);
\* "- a\n  cont\n- b\n" yields "- a\n  cont\n" and "- b\n"
C2_ItemsKeepMarker ==
    /\ \A k \in 1..Len(yielded) :
           yielded[k] = file[KthStart(k)]
                        \o (IF k = 1 THEN Continuations(1, KthStart(1) - 1)
                            ELSE "")
                        \o Continuations(KthStart(k) + 1, ItemEnd(k) - 1)
    /\ (file = <<"- a\n", "  cont\n", "- b\n">> /\ end_reached)
           => yielded = <<"- a\n  cont\n", "- b\n">>

\* C2 witness: the boundary document has been read to its end
C2_Witness ==
    /\ file = <<"- a\n", "  cont\n", "- b\n">>
    /\ raised = "StopIteration"
    /\ Len(yielded) = 2

\* the items yielded so far are those of the first "- " lines, in order, and
\* all of them once the end is reached
C3_ItemsOfStarts ==
    (Starts # {} /\ raised # "idle") =>
        /\ raised # "TypeError"
        /\ Len(yielded) <= Cardinality(Starts)
        /\ \A k \in 1..Len(yielded) :
               StartsWith(yielded[k], file[KthStart(k)])
        /\ end_reached => Len(yielded) = Cardinality(Starts)

\* a request after the end signals the end and reads nothing
C3_EndIsFinal ==
    end_reached => /\ raised' = "StopIteration"
                   /\ file_pos' = file_pos
                   /\ line_counter' = line_counter
                   /\ yielded' = yielded
                   /\ end_reached'

\* C3: a document with a "- " line before its first terminating line yields
\* one item per such line, in document order, and none for the lines from
\* the first terminating line on; after the end every further request
\* signals the end again without reading a line
C3_OneItemPerStartLine == []C3_ItemsOfStarts /\ [][C3_EndIsFinal]_vars

\* C3 witness: two items were yielded, a "- " line after the terminating
\* line was not
C3_Witness ==
    /\ file = <<"- a\n", "- b\n", "* h\n", "- a\n">>
    /\ raised = "StopIteration"
    /\ Len(yielded) = 2
    /\ file_pos = 4

(***************************************************************************)
(* The tag processor's properties                                          *)
(***************************************************************************)

\* a body the pattern of _apply_tags takes
ValidBody(b) == b # "" /\ \A i \in 1..Len(b) : At(b, i) \notin {"<", ">"}

\* the phrase's tags are <*> and </>, once each, and no other
StarAndSlash(tags) == tags \in {<<"<*>", "</>">>, <<"</>", "<*>">>}

\* C4 as claimed: with the tags <*> and </> and no other, questionText is
\* the body wrapped as */body/* and answerText the bare body
C4_WrappedStarOutside ==
    (ValidBody(in_body) /\ StarAndSlash(in_front \o in_back)
     /\ tag_pc # "start" /\ tag_pc # "unwrap") =>
        /\ tag_pc = "done"
        /\ question_text = "*/" \o in_body \o "/*"
        /\ answer_text = in_body

\* C4 as amended: with <*> and </> as the tags before the body and no other
\* tag, _apply_tags returns questionText "/*body*/" (the * rule wraps the
\* body first, the / rule then wraps the result) and answerText the body
C4_WrappedSlashOutside ==
    (ValidBody(in_body) /\ StarAndSlash(in_front) /\ in_back = <<>>
     /\ tag_pc # "start" /\ tag_pc # "unwrap") =>
        /\ tag_pc = "done"
        /\ question_text = "/*" \o in_body \o "*/"
        /\ answer_text = in_body

\* C4 witness: <*></>body has been processed
C4_Witness ==
    /\ in_front = <<"<*>", "</>">>
    /\ in_body = "body"
    /\ in_back = <<>>
    /\ tag_pc = "done"

NoBrackets(t) == \A i \in 1..Len(t) : At(t, i) \notin {"<", ">"}

\* the number of '<' and '>' in t
Brackets(t) == Cardinality({i \in 1..Len(t) : At(t, i) \in {"<", ">"}})

\* what _apply_tags returns holds no bracket, and the answer is the body
C5_Returned ==
    tag_pc = "done" => /\ NoBrackets(question_text)
                       /\ NoBrackets(answer_text)
                       /\ answer_text = in_body

\* _apply_tags accepts the phrases made of tags, a body and tags
C5_Accepted ==
    tag_pc \in {"unwrap", "done"} <=> (tag_pc # "start" /\ ValidBody(in_body))

\* a pass of the unwrap loop leaves fewer brackets, and the loop is left
\* only when no tag remains
C5_LoopVariant ==
    /\ (tag_pc = "unwrap" /\ tag_pc' = "unwrap") =>
           Brackets(question_text') < Brackets(question_text)
    /\ (tag_pc = "unwrap" /\ tag_pc' # "unwrap") =>
           tag_pc' = "done" /\ question_text' = question_text

\* C5: for every phrase _apply_tags accepts, questionText and answerText
\* hold no '<' and no '>', answerText is the body, and the unwrap loop ends:
\* every pass removes brackets and the loop is left when none remains
C5_NoBracketsLeft ==
    []C5_Returned /\ []C5_Accepted /\ [][C5_LoopVariant]_vars

\* C5 witness: a phrase with ordinary and special tags before and after its
\* body has been processed
C5_Witness ==
    /\ in_front = <<"<x>", "<eng>">>
    /\ in_back = <<"</>", "<x>">>
    /\ in_body = "body"
    /\ tag_pc = "done"

(***************************************************************************)
(* The word wrapper's properties                                           *)
(***************************************************************************)

\* s.split("\n"): the lines of s from index i on
RECURSIVE LinesFrom(_, _)
LinesFrom(s, i) ==
    LET n == RunNot({"\n"}, s, i)
    IN  IF i + n > Len(s) THEN <<Slice(s, i - 1, i + n - 1)>>
        ELSE <<Slice(s, i - 1, i + n - 1)>> \o LinesFrom(s, i + n + 1)

\* C6: the lines of fill_paragraph's result, joined with single spaces, are
\* the whitespace-normalized paragraph
C6_WrapRoundTrip ==
    fill_pc = "done" =>
        Join(" ", LinesFrom(filled, 1)) = Join(" ", Split(paragraph))

(***************************************************************************)
(* The noun grammar extractor's properties                                 *)
(***************************************************************************)

\* word characters, comma, semicolon, parentheses and spaces
ClaimedTranslationChars == WordChars \cup {",", ";", "(", ")", " "}

Only(cs, t) == \A i \in 1..Len(t) : At(t, i) \in cs

\* the item's article, plural part and translation are those of a noun line
GoodArticle     == in_article \in {"der", "Der", "die", "Die", "das", "Das"}
GoodPlural      ==
    \/ in_plural.kind = "none"
    \/ in_plural.kind = "explicit" /\ in_plural.a \in {"die", "Die"}
    \/ in_plural.kind = "ending" /\ in_plural.w \in {"-", "-e", "en", "1"}
GoodTranslation == Only(ClaimedTranslationChars, in_translation)

\* parse_noun has returned or raised
Parsed == noun_pc \in {"done", "ItemFormatError"}

\* C7 as claimed: a line with an explicit plural whose two articles are any
\* of der, die, das is parsed, singular and plural as written
C7_ExplicitPluralAnyArticle ==
    (Parsed /\ in_plural.kind = "explicit" /\ GoodArticle /\ GoodTranslation
     /\ in_plural.a \in {"der", "die", "das"}) =>
        /\ noun_pc = "done"
        /\ noun.singular = in_article \o " " \o in_word
        /\ noun.plural = in_plural.a \o " " \o in_plural.w

\* C7 as amended: a line with an explicit plural whose article is der, die
\* or das and whose plural article is die (the first letter of either in
\* upper or lower case) is parsed, singular = article + ' ' + word and
\* plural = article2 + ' ' + word2 as written; with der or das as the
\* plural article the line is not a noun
C7_ExplicitPluralDie ==
    (Parsed /\ in_plural.kind = "explicit" /\ GoodArticle /\ GoodTranslation) =>
        /\ in_plural.a \in {"die", "Die"} =>
               /\ noun_pc = "done"
               /\ noun.singular = in_article \o " " \o in_word
               /\ noun.plural = in_plural.a \o " " \o in_plural.w
               /\ noun.translation = in_translation
        /\ in_plural.a \in {"der", "das"} => noun_pc = "ItemFormatError"

\* C7 witness: "Das <word>, Die Tische = ..." has been parsed
C7_Witness ==
    /\ noun_pc = "done"
    /\ in_article = "Das"
    /\ in_plural = [kind |-> "explicit", a |-> "Die", w |-> "Tische"]

\* the suffix an ending stands for
SuffixOf(ending) ==
    CASE ending = "-"  -> ""
      [] ending = "-e" -> "e"
      [] ending = "en" -> "en"
      [] ending = "1"  -> "1"

\* C8: a line with a plural ending is parsed with plural = "die " + word +
\* suffix, the suffix empty for the ending '-' and otherwise the ending
\* without its leading '-'; the singular's article is not in the plural
C8_PluralFromEnding ==
    (Parsed /\ in_plural.kind = "ending" /\ GoodArticle /\ GoodPlural
     /\ GoodTranslation) =>
        /\ noun_pc = "done"
        /\ noun.singular = in_article \o " " \o in_word
        /\ noun.plural = "die " \o in_word \o SuffixOf(in_plural.w)

\* C8 witness: "das <word>, - = ..." or "das <word>, -e = ..." has been
\* parsed
C8_Witness ==
    /\ noun_pc = "done"
    /\ in_article = "das"
    /\ in_plural.kind = "ending"
    /\ in_plural.w \in {"-", "-e"}

\* C9 as claimed: a noun line is accepted for every spelling of its article
\* in upper and lower case, and rejected for any other first word
C9_ArticleAnyCase ==
    (Parsed /\ GoodPlural /\ GoodTranslation) =>
        (noun_pc = "done" <=>
            in_article \in {"der", "Der", "DER", "dEr", "die", "Die", "das",
                            "Das"})

\* C9 as amended: a noun line is accepted when its article is der, die or
\* das with the first letter in upper or lower case, and rejected as not a
\* noun for any other first word, other spellings such as DER and dEr
\* included
C9_ArticleFirstLetterCase ==
    (Parsed /\ GoodPlural /\ GoodTranslation) =>
        (noun_pc = "done" <=>
            in_article \in {"der", "Der", "die", "Die", "das", "Das"})

\* C9 witness: a line with the article Der was accepted
C9_Witness ==
    /\ noun_pc = "done"
    /\ in_article = "Der"
    /\ in_plural.kind = "ending"

\* C10 as claimed: a noun-shaped line is accepted only if its translation is
\* made of word characters, comma, semicolon, parentheses and spaces
C10_TranslationClaimedChars ==
    (Parsed /\ GoodArticle /\ GoodPlural) =>
        (noun_pc = "done" <=> Only(ClaimedTranslationChars, in_translation))

\* C10 as amended: parse_noun accepts a noun-shaped line only if its
\* translation is made of word characters, comma, semicolon, parentheses,
\* spaces, apostrophe, double quote and hyphen; with any other character the
\* line is not a noun.  The old parse_noun accepts a single-spaced line
\* only if its translation is made of the first five of these.
C10_TranslationChars ==
    /\ (Parsed /\ GoodArticle /\ GoodPlural) =>
           (noun_pc = "done" <=>
               Only(ClaimedTranslationChars \cup {"'", "\"", "-"},
                    in_translation))
    /\ (old_pc \in {"done", "LineFormatError"} /\ GoodArticle /\ GoodPlural
        /\ ~Contains(item, "  ")) =>
           (old_pc = "done" <=> Only(ClaimedTranslationChars, in_translation))

\* C10 witness: a noun-shaped line whose translation holds a '!' was rejected
C10_Witness ==
    /\ GoodArticle
    /\ GoodPlural
    /\ noun_pc = "ItemFormatError"
    /\ in_translation = "a!"

(***************************************************************************)
(* The item classifier's and the synthesizers' properties                  *)
(***************************************************************************)

\* items that begin with "- (o) " and go on with a noun line
OldNounItems ==
    {"- (o) " \o gap \o a \o " Tisch" \o pl \o " = " \o t :
        gap \in {"", " "}, a \in {"der", "Das"}, pl \in ItemPlurals,
        t \in ItemTranslations}

\* parse_item has returned or raised for the current item
ItemParsed ==
    \/ main_pc \in {"returned", "except"}
    \/ main_pc \in {"next", "done"} /\ Len(yielded) > 0

\* C11: for every item that begins with "- (o) " and whose remainder is a
\* noun line, parse_item returns an OldNoun made by the first attempt, never
\* a NewNoun or a SimplePair; parse_noun is tried on the whole item only
\* when no OldNoun was made, and for an "- (o) " item only after the old
\* noun attempt
C11_OldNounFirst ==
    /\ (cur_item \in OldNounItems /\ ItemParsed) =>
           /\ result.kind = "OldNoun"
           /\ attempts = <<"old">>
    /\ \A i \in 1..Len(attempts) :
           attempts[i] = "new" =>
               /\ result.kind # "OldNoun"
               /\ StartsWith(cur_item, "- (o) ") =>
                      i = 2 /\ attempts[1] = "old"
               /\ ~StartsWith(cur_item, "- (o) ") => i = 1

\* C11 witness: an "- (o) " item with an explicit plural was classified
C11_Witness ==
    /\ cur_item = "- (o)  Das Tisch, die Tische = the\n  table\n"
    /\ main_pc = "returned"
    /\ result.kind = "OldNoun"

\* the root header of a card sequence, and the question and the answer of
\* its k-th card
HeaderOf(lines)      == lines[1]
QuestionOf(lines, k) == lines[4 * k - 1]
AnswerOf(lines, k)   == lines[4 * k + 1]

\* the heading lines of a card
QHeading == "*** q                         :drill:\n"
AHeading == "**** a\n"

\* C12 as claimed: the item "- der Tisch, -e = the table" yields a card
\* sequence with the root header "der Tisch", the first pair
\* "gender of *Tisch*" / "der Tisch" and the second pair
\* "plural of *der Tisch*" / "die Tische"
C12_TischGenderThenPlural ==
    (file = <<"- der Tisch, -e = the table">> /\ ItemParsed) =>
        /\ Len(result.lines) >= 9
        /\ HeaderOf(result.lines) = "** der Tisch\n"
        /\ QuestionOf(result.lines, 1) = "gender of *Tisch*\n"
        /\ AnswerOf(result.lines, 1) = "der Tisch\n"
        /\ QuestionOf(result.lines, 2) = "plural of *der Tisch*\n"
        /\ AnswerOf(result.lines, 2) = "die Tische\n"

\* C12 as amended: the item "- der Tisch, -e = the table" is a new noun and
\* yields the root header "der Tisch" and the pairs "the table" /
\* "der Tisch", "*der Tisch*" / "the table", "mnozina od *der Tisch*" /
\* "die Tische" and "jednina od *die Tische*" / "der Tisch"; the item
\* "- (o) der Tisch, -e = the table" is an old noun and yields the root
\* header "der Tisch" and the pairs "Rod od *Tisch*" / "der Tisch",
\* "mnozina od *der Tisch*" / "die Tische" and "jednina od *die Tische*" /
\* "der Tisch" (mnozina spelt with z-caron in the source)
C12_TischCards ==
    /\ (file = <<"- der Tisch, -e = the table">> /\ ItemParsed) =>
           /\ result.kind = "NewNoun"
           /\ result.lines =
                  <<"** der Tisch\n",
                    QHeading, "the table\n", AHeading, "der Tisch\n",
                    QHeading, "*der Tisch*\n", AHeading, "the table\n",
                    QHeading, "mnozina od *der Tisch*\n", AHeading,
                    "die Tische\n",
                    QHeading, "jednina od *die Tische*\n", AHeading,
                    "der Tisch\n">>
    /\ (file = <<"- (o) der Tisch, -e = the table">> /\ ItemParsed) =>
           /\ result.kind = "OldNoun"
           /\ result.lines =
                  <<"** der Tisch\n",
                    QHeading, "Rod od *Tisch*\n", AHeading, "der Tisch\n",
                    QHeading, "mnozina od *der Tisch*\n", AHeading,
                    "die Tische\n",
                    QHeading, "jednina od *die Tische*\n", AHeading,
                    "der Tisch\n">>
    /\ main_pc = "done" => flashcards = result.lines \/ Len(file) # 1

\* C12 witness: the cards of "- der Tisch, -e = the table" were added to
\* the flashcards
C12_Witness ==
    /\ file = <<"- der Tisch, -e = the table">>
    /\ main_pc = "done"
    /\ Len(flashcards) = 17

(***************************************************************************)
(* The metadata codec's properties                                         *)
(***************************************************************************)

\* C13: for every flashcard with all ten scheduling fields,
\* extract_properties of the block write_one_flashcard writes for it
\* returns a Properties value equal to it field by field
C13_PropertiesRoundTrip ==
    codec_pc = "done" =>
        /\ decoded.kind = "Properties"
        /\ \A i \in 1..Len(PropertyNames) :
               decoded.value[PropertyNames[i]] = card[PropertyNames[i]]

(***************************************************************************)
(* Claims about the import path                                            *)
(***************************************************************************)

\* line j of the drill document, stripped
BlockLine(j) == Strip(imp_file[j])

\* the nine names of properties, and the ten names of values
TenNames  == {PropertyNames[i] : i \in 1..Len(PropertyNames)}
NineNames == TenNames \ {"SCHEDULED"}

\* line j is a `:NAME: value` line
IsPropertyLine(j) ==
    /\ BlockLine(j) \notin {":PROPERTIES:", ":END:", ""}
    /\ ~StartsWith(BlockLine(j), "SCHEDULED:")
    /\ lineformat_match(BlockLine(j)).ok

NameIn(j) == lineformat_match(BlockLine(j)).name

ValueIn(j) == Strip(lineformat_match(BlockLine(j)).value)

\* line j is a line of a block that gives a value or nothing, and no error
PassesInBlock(j) ==
    \/ BlockLine(j) \in {":PROPERTIES:", ""}
    \/ StartsWith(BlockLine(j), "SCHEDULED:") /\ BlockLine(j) # "SCHEDULED:"
    \/ /\ IsPropertyLine(j)
       /\ \/ NameIn(j) \in {"ID", "DRILL_LAST_REVIEWED"}
          \/ NameIn(j) \in FloatNames /\ float_of(ValueIn(j)).ok
          \/ NameIn(j) \in IntNames /\ int_of(ValueIn(j)).ok

\* the names of the values given by the lines after h and before j
SeenNames(h, j) ==
    {IF StartsWith(BlockLine(k), "SCHEDULED:") THEN "SCHEDULED" ELSE NameIn(k) :
        k \in {k \in (h + 1)..(j - 1) : BlockLine(k) \notin {":PROPERTIES:", ""}}}

\* the first line after line h that is no line of a block that passes, or
\* the length of the document and one
RECURSIVE BlockStop(_)
BlockStop(h) ==
    IF h + 1 > Len(imp_file) \/ ~PassesInBlock(h + 1) THEN h + 1
    ELSE BlockStop(h + 1)

\* line j is the :END: of the block under the heading in line h, and a
\* value is missing
EndsIncomplete(h, j) ==
    j <= Len(imp_file) /\ BlockLine(j) = ":END:" /\ SeenNames(h, j) # TenNames

\* line j is a property line of the block under the heading in line h, of
\* a name that is none of the nine
MeetsUnknown(h, j) ==
    j <= Len(imp_file) /\ IsPropertyLine(j) /\ NameIn(j) \notin NineNames

\* the calls of extract_flashcard that gave a Flashcard
FlashcardCalls == {i \in 1..Len(calls) : calls[i].kind = "Flashcard"}

\* the calls that logged an OrgLineFormatError
LoggedCalls ==
    {i \in 1..Len(calls) : calls[i].kind \in {"NoGroup", "OrgLineFormatError"}}

\* extract_flashcard has just been called, and the wrapper is where the
\* call left it
JustCalled ==
    /\ Len(calls) > 0
    /\ calls[Len(calls)].kind # "NoGroup"
    /\ filewrp.linecounter = calls[Len(calls)].last

\* C14: when the block of a drill entry reaches its :END: line with one
\* of the ten values not seen, or a property line of a name that is none
\* of the nine, the call for that entry raises OrgLineFormatError at that
\* line; the errors logged, the flashcards counted and the rows stored are
\* those of the calls that raised it and of the calls that gave a Flashcard
C14_BlockRejected ==
    /\ JustCalled
       => LET h == calls[Len(calls)].header
              j == BlockStop(h)
          IN  EndsIncomplete(h, j) \/ MeetsUnknown(h, j)
              => /\ calls[Len(calls)].kind = "OrgLineFormatError"
                 /\ calls[Len(calls)].last = j
    /\ Len(log) = Cardinality(LoggedCalls)
    /\ flashcards_counter = Cardinality(FlashcardCalls)
    /\ DOMAIN db = {calls[i].value.ID : i \in FlashcardCalls}

\* an entry with a value missing at :END: and an entry with an unknown
\* name have both been called for and rejected
C14_Witness ==
    /\ Len(log) = 2
    /\ Len(calls) = 2
    /\ calls[1].kind = "OrgLineFormatError"
    /\ calls[2].kind = "OrgLineFormatError"
    /\ BlockLine(calls[1].last) = ":END:"
    /\ MeetsUnknown(calls[2].header, calls[2].last)
    /\ db = NoRows

\* the text of a heading: what follows its stars, stripped
HeadingText(line) == Strip(SliceFrom(line, Run({"*"}, line, 1)))

\* line j is a heading of a group: an org heading that is neither the
\* heading of a drill entry nor the back-side heading of one
IsGroupHeading(j) ==
    /\ is_org_header(imp_file[j])
    /\ ~is_drill_header(imp_file[j])
    /\ imp_file[j] # AnswerHeading

\* the headings of groups before line h
HeadingsBefore(h) == {j \in 1..(h - 1) : IsGroupHeading(j)}

\* the nearest of them
NearestHeading(h) ==
    CHOOSE j \in HeadingsBefore(h) : \A k \in HeadingsBefore(h) : k <= j

\* C15: every Flashcard of read_and_save_flashcards has the text of the
\* nearest heading of a group before its drill heading as PWCENTRY, and a
\* drill entry with no heading before it gives no Flashcard
C15_GroupIsNearestHeading ==
    \A i \in FlashcardCalls :
        /\ HeadingsBefore(calls[i].header) # {}
        /\ calls[i].value.PWCENTRY
               = HeadingText(imp_file[NearestHeading(calls[i].header)])

\* line h is the heading of a well-formed drill entry: a block that
\* reaches its :END: with the ten values seen, a line of front text, the
\* back-side heading and a line of back text
WellFormedAt(h) ==
    /\ is_drill_header(imp_file[h])
    /\ LET e == BlockStop(h)
       IN  /\ e + 3 <= Len(imp_file)
           /\ BlockLine(e) = ":END:"
           /\ SeenNames(h, e) = TenNames
           /\ ~is_org_header(imp_file[e + 1])
           /\ imp_file[e + 2] = AnswerHeading
           /\ ~is_org_header(imp_file[e + 3])

\* the calls of extract_flashcard in which the block raised
\* OrgLineFormatError
BlockFailedCalls ==
    {i \in 1..Len(calls) : calls[i].kind = "OrgLineFormatError"}

\* the calls that gave a Flashcard for the drill heading in line h
FlashcardsOf(h) == {i \in FlashcardCalls : calls[i].header = h}

\* C16: when the loop has ended, every well-formed drill entry after an
\* entry whose block raised OrgLineFormatError has given exactly one
\* Flashcard, and the failed entry none
C16_LaterEntriesYield ==
    imp_pc = "done"
    => \A i \in BlockFailedCalls :
           /\ FlashcardsOf(calls[i].header) = {}
           /\ \A h \in (calls[i].header + 1)..Len(imp_file) :
                  WellFormedAt(h) => Cardinality(FlashcardsOf(h)) = 1

\* the lines the loop has still to read, counted twice, and the line that
\* was handed back
LinesLeft ==
    2 * (Len(imp_file) + 1 - filewrp.pos)
    + (IF filewrp.return_current_line THEN 1 ELSE 0)

\* readline has met the end of the document
EndOfInput == filewrp.currentline = ""

\* a pass of the loop leaves the loop or leaves fewer lines to read, and
\* with no line to read it leaves the loop; a pass at the end of the
\* document ends the loop and logs nothing
C17_LoopVariant ==
    /\ (imp_pc = "loop" /\ imp_pc' = "loop") => LinesLeft' < LinesLeft
    /\ (imp_pc = "loop" /\ LinesLeft = 0) => imp_pc' = "done"
    /\ imp_pc # "loop" => imp_pc' = imp_pc
    /\ (imp_pc = "loop" /\ EndOfInput') => imp_pc' \in {"loop", "done"}
    /\ (imp_pc = "loop" /\ EndOfInput' /\ imp_pc' = "loop")
           => calls'[Len(calls')].kind = "Flashcard"
    /\ (imp_pc = "loop" /\ EndOfInput' /\ ~EndOfInput) =>
           Len(log') = Len(log)
    /\ (imp_pc = "loop" /\ EndOfInput) => (imp_pc' = "done" /\ log' = log)

\* C17: read_and_save_flashcards ends over every drill document: every
\* pass of the loop leaves it or leaves fewer lines to read, never fewer
\* than none, and with none to read it leaves the loop; and the end of the document, met by the loop, in a block, in
\* the front text or in the back text, ends the loop with no error raised
\* and nothing logged: a Flashcard cut by the end of the back text is
\* given first, and the next pass ends the loop
C17_EndOfInputEndsLoop ==
    /\ [](LinesLeft >= 0)
    /\ [](EndOfInput => imp_pc \in {"loop", "done"})
    /\ [](imp_pc = "done" => EndOfInput)
    /\ [](Len(log) = Cardinality(LoggedCalls))
    /\ [][C17_LoopVariant]_vars

\* the end of the document has been met in the front text of an entry, and
\* the loop has ended with nothing logged
C17_Witness ==
    /\ imp_pc = "done"
    /\ EndOfInput
    /\ log = <<>>
    /\ Len(calls) = 1
    /\ calls[1].kind = "OrgEOFError"
    /\ imp_file[Len(imp_file)] = "front\n"

(***************************************************************************)
(* Claims about the diagnostics of the two loops                           *)
(***************************************************************************)

\* the item of the loop of __main__ has been aborted by ItemFormatError,
\* and the error has been caught
ItemAborted ==
    main_pc \in {"next", "done"} /\ result.kind = "ItemFormatError"

\* the text of an item, without the newline at its end
ItemText(it) == Strip(it)

\* C18: every item aborted by a format error that is caught has one record,
\* and the record holds the line number, the text of the item and the
\* message of the error: the line of sys.stderr in __main__, and the warning
\* logged in read_and_save_flashcards, which holds the line of the entry
\* at which the error was raised
C18_RecordHasItemText ==
    /\ ItemAborted
       => /\ Len(stderr) >= 1
          /\ Contains(stderr[Len(stderr)], Str(line_counter))
          /\ Contains(stderr[Len(stderr)], result.message)
          /\ Contains(stderr[Len(stderr)], ItemText(cur_item))
    /\ Len(stderr) <= Len(yielded)
    /\ Len(log) = Cardinality(LoggedCalls)
    /\ (JustCalled /\ calls[Len(calls)].kind = "OrgLineFormatError")
       => /\ Contains(log[Len(log)], Str(filewrp.linecounter))
          /\ Contains(log[Len(log)], ItemText(filewrp.currentline))

(***************************************************************************)
(* Claims about the special tags                                           *)
(***************************************************************************)

SpecialTags == {"<*>", "</>", "<eng>"}

\* the tags of a run that are not special
Ordinary(tags) == SelectSeq(tags, LAMBDA t : t \notin SpecialTags)

\* what the tags of a run hold between their brackets, in a row
RECURSIVE InsideAll(_)
InsideAll(tags) ==
    IF tags = <<>> THEN ""
    ELSE Slice(Head(tags), 1, Len(Head(tags)) - 1) \o InsideAll(Tail(tags))

\* tag is one of tags
Among(tag, tags) == \E i \in 1..Len(tags) : tags[i] = tag

\* the body as the rules of <*> and </> rewrite it, for the special tags
\* among tags
Wrapped(body, tags) ==
    LET t1 == IF Among("<*>", tags) THEN "*" \o body \o "*" ELSE body
    IN  IF Among("</>", tags) THEN "/" \o t1 \o "/" ELSE t1

\* the body as the three rules rewrite it
Rewritten(body, tags) ==
    IF Among("<eng>", tags)
    THEN "Translate to English: " \o Wrapped(body, tags)
    ELSE Wrapped(body, tags)

\* C19 as claimed: a special tag has the same effect before and after the
\* body: it is consumed, and its rewrite of the body is applied
C19_SpecialTagAnywhere ==
    tag_pc = "done" =>
        question_text = InsideAll(Ordinary(in_front))
                        \o Rewritten(in_body, in_front \o in_back)
                        \o InsideAll(Ordinary(in_back))

\* C19 as amended: a special tag before the body is consumed and its
\* rewrite of the body is applied; a special tag after the body is
\* unwrapped as an ordinary tag is, and what it holds stays after the body
C19_SpecialTagBeforeBody ==
    tag_pc = "done" =>
        question_text = InsideAll(Ordinary(in_front))
                        \o Rewritten(in_body, in_front)
                        \o InsideAll(in_back)

\* C19 witness: <*>body<eng> has been processed, the tag after the body
\* left as "eng"
C19_Witness ==
    /\ in_front = <<"<*>">>
    /\ in_body = "body"
    /\ in_back = <<"<eng>">>
    /\ tag_pc = "done"
    /\ question_text = "*body*eng"

\* C20 as claimed: with <eng> among the tags of a phrase, questionText
\* begins with "Translate to English: " whatever other tags there are,
\* and holds no "eng"
C20_EngFirst ==
    (tag_pc = "done" /\ Among("<eng>", in_front \o in_back)) =>
        /\ StartsWith(question_text, "Translate to English: ")
        /\ ~Contains(question_text, "eng")

\* C20 as amended: with <eng> among the tags before the body, the literal
\* stands before the body as <*> and </> rewrite it, after what the
\* ordinary tags before the body hold, so that questionText begins with it
\* when no ordinary tag stands before the body; and questionText holds no
\* "eng" but that of an <eng> after the body
C20_EngBeforeBody ==
    (tag_pc = "done" /\ Among("<eng>", in_front)) =>
        /\ HasAt(question_text,
                 "Translate to English: " \o Wrapped(in_body, in_front),
                 Len(InsideAll(Ordinary(in_front))) + 1)
        /\ Ordinary(in_front) = <<>>
               => StartsWith(question_text, "Translate to English: ")
        /\ ~Among("<eng>", in_back) => ~Contains(question_text, "eng")

\* C20 witness: <x><eng>body has been processed, the literal after "x"
C20_Witness ==
    /\ in_front = <<"<x>", "<eng>">>
    /\ in_body = "body"
    /\ in_back = <<>>
    /\ tag_pc = "done"
    /\ question_text = "xTranslate to English: body"

(***************************************************************************)
(* Claims about parse_item and the card sequences                          *)
(***************************************************************************)

\* the old noun attempt was made for the current item and gave no OldNoun
FellBack ==
    /\ Len(attempts) >= 1
    /\ attempts[1] = "old"
    /\ result.kind # "OldNoun"

\* C21: when the old noun attempt for an "- (o) " item fails, nothing is
\* written for the failure and the item as it was yielded, its prefix
\* still there, goes to the new noun attempt and then to SimplePair; the
\* header and the German texts of the SimplePair hold "(o)"
C21_FallbackKeepsPrefix ==
    /\ FellBack =>
           /\ cur_item = yielded[Len(yielded)]
           /\ StartsWith(cur_item, "- (o) ")
           /\ attempts \in {<<"old">>, <<"old", "new">>, <<"old", "new", "pair">>}
           /\ result.kind \in {"none", "SimplePair", "ItemFormatError"}
           /\ result.kind = "none" <=> Len(attempts) < 3
    /\ (FellBack /\ result.kind = "SimplePair") =>
           /\ Contains(HeaderOf(result.lines), "(o)")
           /\ Contains(QuestionOf(result.lines, 1), "(o)")
           /\ Contains(AnswerOf(result.lines, 2), "(o)")
    /\ (FellBack /\ main_pc \in {"new_noun", "simple_pair", "returned"}) =>
           Len(stderr) < Len(yielded)

\* C21 witness: "- (o) gut = good" has become a SimplePair with the header
\* "(o) gut"
C21_Witness ==
    /\ cur_item = "- (o) gut = good\n"
    /\ main_pc = "returned"
    /\ attempts = <<"old", "new", "pair">>
    /\ result.kind = "SimplePair"
    /\ HeaderOf(result.lines) = "** (o) gut\n"

\* the German text and the translation of a phrase pair item, as
\* _apply_tags takes them
GermanOf(it) ==
    apply_tags(Strip(SliceFrom(Partition(Join(" ", Split(it)), "=").before, 2)))
TranslationOf(it) ==
    apply_tags(Strip(Partition(Join(" ", Split(it)), "=").after))

\* the question form and the answer form of a text, as lines of a card
QuestionForm(t) == fill_paragraph(t.question, MaxWidth) \o "\n"
AnswerForm(t)   == fill_paragraph(t.answer, MaxWidth) \o "\n"

\* the two cards of a phrase pair: German question form and translation
\* answer form, translation question form and German answer form
PairCards(it) ==
    /\ Len(result.lines) = 9
    /\ QuestionOf(result.lines, 1) = QuestionForm(GermanOf(it))
    /\ AnswerOf(result.lines, 1) = AnswerForm(TranslationOf(it))
    /\ QuestionOf(result.lines, 2) = QuestionForm(TranslationOf(it))
    /\ AnswerOf(result.lines, 2) = AnswerForm(GermanOf(it))

\* C22 as claimed: the root header of a phrase pair is the answer form of
\* the translation, and its cards are German question / translation
\* answer and translation question / German answer
C22_HeaderIsTranslation ==
    result.kind = "SimplePair" =>
        /\ PairCards(cur_item)
        /\ HeaderOf(result.lines) = "** " \o AnswerForm(TranslationOf(cur_item))

\* C22 as amended: the root header of a phrase pair is the answer form of
\* the German text; the cards are as claimed
C22_HeaderIsGerman ==
    result.kind = "SimplePair" =>
        /\ PairCards(cur_item)
        /\ HeaderOf(result.lines) = "** " \o AnswerForm(GermanOf(cur_item))

\* C22 witness: the phrase pair with tags on both sides has been made
C22_Witness ==
    /\ cur_item = "- <eng>Haus<x> = <*>house<y>\n"
    /\ main_pc = "returned"
    /\ result.lines =
           <<"** Haus\n",
             QHeading, "Translate to English: Hausx\n", AHeading, "house\n",
             QHeading, "*house*y\n", AHeading, "Haus\n">>

\* lines is a root heading followed by n cards of four lines: the heading
\* of the question, the question, the heading of the answer, the answer
IsCardSequence(lines, n) ==
    /\ Len(lines) = 1 + 4 * n
    /\ StartsWith(lines[1], "** ")
    /\ \A k \in 1..n :
           /\ lines[4 * k - 2] = QHeading
           /\ lines[4 * k] = AHeading
           /\ ~StartsWith(QuestionOf(lines, k), "*** ")
           /\ ~StartsWith(AnswerOf(lines, k), "**** ")

\* parse_item has returned a card sequence
SequenceMade == result.kind \in {"OldNoun", "NewNoun", "SimplePair"}

\* C23 as claimed: every card sequence is a root heading and one or two
\* cards of four lines, five or nine lines in all
C23_OneOrTwoCards ==
    SequenceMade =>
        \/ IsCardSequence(result.lines, 1)
        \/ IsCardSequence(result.lines, 2)

\* C23 as amended: every card sequence is a root heading and cards of four
\* lines: one card for an old noun without plural and three with, two
\* cards for a new noun without plural and four with, two for a phrase pair
C23_OneToFourCards ==
    /\ result.kind = "OldNoun" =>
           \/ IsCardSequence(result.lines, 1)
           \/ IsCardSequence(result.lines, 3)
    /\ result.kind = "NewNoun" =>
           \/ IsCardSequence(result.lines, 2)
           \/ IsCardSequence(result.lines, 4)
    /\ result.kind = "SimplePair" => IsCardSequence(result.lines, 2)

\* C23 witness: a new noun with a plural has given four cards
C23_Witness ==
    /\ result.kind = "NewNoun"
    /\ main_pc = "returned"
    /\ IsCardSequence(result.lines, 4)

(***************************************************************************)
(* Claims about the blocks and the bodies of drill entries                 *)
(***************************************************************************)

\* the lines after line h and before line j that give the value of name n
LinesOf(h, j, n) ==
    {k \in (h + 1)..(j - 1) :
        IF n = "SCHEDULED" THEN StartsWith(BlockLine(k), "SCHEDULED:")
        ELSE IsPropertyLine(k) /\ NameIn(k) = n}

\* C24: a block is accepted only if it holds, before its :END:, one
\* SCHEDULED line and one line for each of the nine names, and no more
C24_OneLineEach ==
    JustCalled /\ calls[Len(calls)].kind = "Flashcard"
    => \A n \in TenNames :
           Cardinality(LinesOf(calls[Len(calls)].header,
                               BlockStop(calls[Len(calls)].header), n)) = 1

\* the first heading in the lines from line j on, or the length of the
\* document and one
RECURSIVE NextHeadingFrom(_)
NextHeadingFrom(j) ==
    IF j > Len(imp_file) \/ is_org_header(imp_file[j]) THEN j
    ELSE NextHeadingFrom(j + 1)

\* the back-side heading of the entry under the heading in line h: the
\* first heading after its block
BackHeading(h) == NextHeadingFrom(BlockStop(h) + 1)

\* line h is the heading of a drill entry with a complete block, front
\* text and a back-side heading
HasBodyAt(h) ==
    /\ is_drill_header(imp_file[h])
    /\ BlockStop(h) <= Len(imp_file)
    /\ BlockLine(BlockStop(h)) = ":END:"
    /\ SeenNames(h, BlockStop(h)) = TenNames
    /\ BackHeading(h) > BlockStop(h) + 1
    /\ BackHeading(h) <= Len(imp_file)
    /\ imp_file[BackHeading(h)] = AnswerHeading

\* the lines of back text of that entry: those after its back-side heading
\* up to the next heading or to the end of the document
BackLines(h) ==
    SubSeq(imp_file, BackHeading(h) + 1, NextHeadingFrom(BackHeading(h) + 1) - 1)

\* C25: when the loop has ended, every drill entry extract_flashcard was
\* called for that has a complete block, front text and a back-side
\* heading has given exactly one Flashcard, and its BACK is the back text
\* up to the next heading or to the end of the document, empty when the
\* document ends with the back-side heading
C25_BackUpToHeadingOrEnd ==
    imp_pc = "done"
    => \A i \in 1..Len(calls) :
           (calls[i].kind # "NoGroup" /\ HasBodyAt(calls[i].header))
           => /\ calls[i].kind = "Flashcard"
              /\ Cardinality(FlashcardsOf(calls[i].header)) = 1
              /\ calls[i].value.BACK = Strip(Join("", BackLines(calls[i].header)))

(***************************************************************************)
(* Claims about the lines of an item                                       *)
(***************************************************************************)

\* C26: every item yielded is its "- " line followed by the two-space
\* lines between that line and the next "- " line, in the order of the
\* document, and by no other line: a two-space line before the first "- "
\* line is in no item, and no '#' line is in any item
C26_ItemsContiguous ==
    \A k \in 1..Len(yielded) :
        /\ yielded[k] = file[KthStart(k)]
                        \o Continuations(KthStart(k) + 1, ItemEnd(k) - 1)
        /\ \A i \in 1..Len(file) :
               StartsWith(file[i], "#") => ~Contains(yielded[k], file[i])

(***************************************************************************)
(* Claims about the group and the line handed back                         *)
(***************************************************************************)

\* C27: the pwce_name carried by the loop is the text of a heading that is
\* outside every drill entry, never that of the back-side heading of an
\* entry: no Flashcard has the text of a back-side heading as PWCENTRY,
\* and the call after a call that raised OrgLineFormatError has the
\* pwce_name of that call unless a heading of a group lies between the two
C27_GroupOutsideEntries ==
    /\ pwce_name # None
       => /\ pwce_name # HeadingText(AnswerHeading)
          /\ \E j \in 1..Len(imp_file) :
                 IsGroupHeading(j) /\ pwce_name = HeadingText(imp_file[j])
    /\ \A i \in FlashcardCalls :
           calls[i].value.PWCENTRY # HeadingText(AnswerHeading)
    /\ \A i \in 1..(Len(calls) - 1) :
           (/\ calls[i].kind = "OrgLineFormatError"
            /\ \A j \in calls[i].header..calls[i + 1].header :
                   ~IsGroupHeading(j))
           => calls[i + 1].pwce = calls[i].pwce

\* the line the next pass of the loop is to work on: the line handed back,
\* or the line after the last line read
Processed ==
    IF filewrp.return_current_line THEN filewrp.linecounter
    ELSE filewrp.linecounter + 1

\* the first line after the well-formed entry under the heading in line h
\* that is a heading, or the length of the document and one
EntryEnd(h) == NextHeadingFrom(BlockStop(h) + 3)

\* the headings of the well-formed entries that follow one another from
\* line h on
RECURSIVE ChainFrom(_)
ChainFrom(h) ==
    IF h <= Len(imp_file) /\ WellFormedAt(h)
    THEN {h} \cup ChainFrom(EntryEnd(h))
    ELSE {}

\* a line handed back is the heading that ended the back text of the
\* Flashcard just given, it is the last line read, and every line read has
\* been counted once
C28_HandedBack ==
    /\ filewrp.linecounter = filewrp.pos - 1
    /\ (imp_pc = "loop" /\ filewrp.return_current_line)
       => /\ JustCalled
          /\ calls[Len(calls)].kind = "Flashcard"
          /\ filewrp.currentline = imp_file[filewrp.linecounter]
          /\ is_org_header(filewrp.currentline)

\* a pass of the loop works on the line that is to be worked on, and the
\* next pass on a later line: a heading handed back is taken as the drill
\* heading of a call or as the heading of a group, without being counted
\* again
C28_WorkedOnOnce ==
    (imp_pc = "loop" /\ Processed <= Len(imp_file))
    => /\ imp_pc' = "loop" => Processed' > Processed
       /\ filewrp.return_current_line
          => /\ is_drill_header(imp_file[Processed])
                => /\ Len(calls') = Len(calls) + 1
                   /\ calls'[Len(calls')].header = Processed
             /\ (~is_drill_header(imp_file[Processed]) /\ imp_pc' = "loop")
                => /\ pwce_name' = extract_pwce_name(imp_file[Processed]).name
                   /\ filewrp'.linecounter = filewrp.linecounter
                   /\ ~filewrp'.return_current_line
                   /\ calls' = calls

\* when the loop has ended, the well-formed entries that follow one another
\* after the heading of a group have given one Flashcard each
C28_OneFlashcardEach ==
    imp_pc = "done"
    => \A g \in 1..Len(imp_file) :
           (IsGroupHeading(g) /\ extract_pwce_name(imp_file[g]).ok)
           => \A h \in ChainFrom(g + 1) : Cardinality(FlashcardsOf(h)) = 1

\* C28: the heading that ends the back text of an entry is handed back by
\* extract_flashcard and is the line the next pass of the loop works on,
\* once, with the line counter as it was; so the well-formed entries that
\* follow one another under the heading of a group give one Flashcard each
C28_OneLinePushback ==
    /\ []C28_HandedBack
    /\ []C28_OneFlashcardEach
    /\ [][C28_WorkedOnOnce]_vars

\* two well-formed entries under one heading have given two Flashcards, the
\* heading of the second being the line that ended the back text of the
\* first
C28_Witness ==
    /\ imp_pc = "done"
    /\ Len(calls) = 2
    /\ imp_file[1] = GroupHeading
    /\ ChainFrom(2) = {calls[i].header : i \in FlashcardCalls}
    /\ calls[1].last = calls[2].header
    /\ flashcards_counter = 2

====
